---- MODULE Spec2Model ----
(***************************************************************************)
(* DADM agent core: the sliding-window feature extractor                   *)
(* (features/pipeline.rs, features/behavioral.rs), the encrypted event     *)
(* store (storage/encrypted.rs) and the cycle orchestrator with its daemon *)
(* loop (main.rs).                                                         *)
(*                                                                         *)
(* The specifications share one list of variables; each leaves the parts   *)
(* it does not use at their initial value:                                 *)
(*   SpecWindow     push / flush on one FeatureExtractor                   *)
(*   SpecStore      insert_event / get_event / prune_before on one handle  *)
(*   SpecTamper     the same with stored blobs altered from outside        *)
(*   SpecRetention  inserts and prunes over three timestamps               *)
(*   SpecCycle      run_one_cycle step by step, with every outcome of the  *)
(*                  model, of the inserts and of the uplink                *)
(*   SpecDaemon     main(): startup, the daemon loop and the Ctrl-C        *)
(*                  handler (with fairness: SpecDaemonFair)                *)
(*   SpecRisk       RiskEngine::score for every pair of thresholds         *)
(*   SpecReport     cycles with an uplink and every outcome of its POSTs   *)
(*                  (with fairness: SpecReportFair)                        *)
(*   SpecCollect    one cycle with every subset of the collectors failing  *)
(*   SpecPartial    a daemon whose inserts may fail, on small windows      *)
(*   SpecCancel     a daemon with Ctrl-C between the inserts and the POSTs *)
(*                  of a cycle (with fairness: SpecCancelFair)             *)
(*   SpecReopen     the store reopened on the same path                    *)
(*   SpecSharedWindow, SpecSharedStore, SpecLocks                          *)
(*                  two threads calling one extractor and one store        *)
(***************************************************************************)
EXTENDS Integers, Sequences, FiniteSets, TLC

VARIABLES
    \* ---- FeatureExtractor (features/pipeline.rs)
    window_events,   \* config.window_events: capacity of the window
    window,          \* Mutex<VecDeque<Event>>: the window, oldest first
    inserted,        \* history: every event push_back ever appended, in order
    feature_dim,     \* config.feature_dim: length of a feature vector
    pushRet,         \* value returned by the last push (a list of 0 or 1 vectors)
    flushRet,        \* value returned by the last flush (<<>> is None)
    \* ---- SecureStore (storage/encrypted.rs)
    key,             \* SecureStore.key: derive_key(secret) of the open handle
    events_table,    \* the rows of table `events`
    storeRet,        \* the last store operation and the value it returned
    written,         \* history: id -> arguments of the latest insert still stored
                     \* (with threads: the insert calls written so far, in order)
    altered,         \* history: ids whose stored blob was altered after the insert
    \* ---- main() and run_one_cycle (main.rs), UplinkClient (uplink.rs)
    pc,              \* where the main thread is
    STOP,            \* static STOP: AtomicBool
    interval_secs,   \* config.collectors.process_interval_secs (u64, as two halves)
    uplink,          \* whether main holds Some(UplinkClient)
    session,         \* whether OnnxDetector holds a loaded session
    risk_config,     \* RiskEngine.config: RiskConfig {high_threshold, medium_threshold}
    device_registered, \* UplinkClient.device_registered
    cycle,           \* let mut cycle: u64
    collected,       \* history: what each collector's snapshot() returned
    cyc_events,      \* run_one_cycle: the batch collect_snapshot returned
    cyc_score,       \* run_one_cycle: let score
    model_out,       \* history: <<out>> if the model was asked in this cycle, `out`
                     \* being what its session produced for the vector
    cyc_result,      \* run_one_cycle: let result (<<>> until it is computed)
    persisted,       \* run_one_cycle: events of the batch inserted so far
    cycleRet,        \* what the last run_one_cycle returned (<<>> while it runs)
    reportRet,       \* the report call of this cycle (<<>> if there was none)
    report_posts,    \* the POSTs made so far by the report call that is running
    sleep_i,         \* iterations left of `for _ in 0..(interval_secs as u32)`
    stopAt,          \* history: pc at the moment STOP was set ("" before)
    sleepsAfterStop, \* history: sleep increments that ended after STOP was set
    \* ---- threads sharing one FeatureExtractor and one SecureStore
    script,          \* thread -> the calls it makes, in order
    thread,          \* thread -> where it is in its script and in the call
    locks,           \* lock -> the thread holding it (NoThread when free)
    poisoned,        \* the locks a thread panicked on while holding them: none,
                     \* no step of push, flush or the store panics under a guard
    returned         \* history: the calls that returned, in order of return

windowVars == <<window_events, feature_dim, window, inserted, pushRet, flushRet>>

storeVars == <<key, events_table, storeRet, written, altered>>

cycleVars == <<collected, cyc_events, cyc_score, model_out, cyc_result, persisted, cycleRet, reportRet,
               report_posts>>

mainVars == <<pc, STOP, interval_secs, uplink, session, risk_config, device_registered, cycle,
              cycleVars, sleep_i, stopAt, sleepsAfterStop>>

lockVars == <<script, thread, locks, poisoned, returned>>

daemonVars == <<mainVars, lockVars>>

vars == <<windowVars, storeVars, daemonVars>>

\* RiskConfig and its defaults (config.rs)
high_threshold == 800
medium_threshold == 500
RiskConfig(high, medium) == [high_threshold |-> high, medium_threshold |-> medium]
DefaultRiskConfig == RiskConfig(high_threshold, medium_threshold)

\* Locks: Mutex<VecDeque<Event>> of the extractor, Mutex<Connection> of the store
NoThread == 0
LockNames == {"window", "conn"}
AllFree == [ l \in LockNames |-> NoThread ]

\* Mutex::lock() on lock l: an Err(PoisonError) once a thread has panicked
\* while holding l, which `.expect("lock")` and `.unwrap()` turn into a panic
LockResult(l) == IF l \in poisoned THEN "poisoned" ELSE "guard"

\* No thread besides the caller uses the extractor or the store.
LocksUnused ==
    /\ script = <<>>
    /\ thread = <<>>
    /\ locks = AllFree
    /\ poisoned = {}
    /\ returned = <<>>

\* The main thread is not part of SpecWindow and the store specifications.
MainUnused ==
    /\ pc = "unused"
    /\ risk_config = DefaultRiskConfig
    /\ STOP = FALSE
    /\ interval_secs = [hi |-> 0, lo |-> 0]
    /\ uplink = FALSE
    /\ session = FALSE
    /\ device_registered = FALSE
    /\ cycle = 0
    /\ collected = <<>>
    /\ cyc_events = <<>>
    /\ cyc_score = 0
    /\ model_out = <<>>
    /\ cyc_result = <<>>
    /\ persisted = 0
    /\ cycleRet = <<>>
    /\ reportRet = <<>>
    /\ report_posts = <<>>
    /\ sleep_i = 0
    /\ stopAt = ""
    /\ sleepsAfterStop = 0

DaemonUnused == MainUnused /\ LocksUnused

(***************************************************************************)
(* Bounds of the model                                                     *)
(***************************************************************************)
MaxCap == 2        \* window_events ranges over 0..MaxCap
MaxBatch == 3      \* a push carries at most MaxBatch events
MaxEvents == 3     \* events created in one behaviour of SpecWindow
DimPool == {0, 3, 12, 14}   \* values of feature_dim tried
MaxIds == 3        \* SpecRetention inserts under the ids 1..MaxIds
MaxPayloadLen == 2 \* SpecTamper: a payload has at most MaxPayloadLen bytes
MaxCycles == 2     \* cycles a behaviour of SpecCycle / SpecDaemon starts
MaxSnapshot == 2   \* SpecCycle: events one collect_snapshot returns
MaxRunEvents == 3  \* events collected in one behaviour of SpecCycle / SpecDaemon
MaxCalls == 1      \* calls a thread makes in the specifications with threads
MaxBatchShared == 2   \* events of one push in the specifications with threads

(***************************************************************************)
(* Events (collectors/mod.rs).  An id is a UUID string in the program; the *)
(* model numbers the events 1, 2, ... and writes the empty string as 0.    *)
(***************************************************************************)
EmptyId == 0

RECURSIVE SeqSum(_)
SeqSum(s) == IF s = <<>> THEN 0 ELSE Head(s) + SeqSum(Tail(s))

Min(a, b) == IF a <= b THEN a ELSE b

\* EventKind, one record shape for the four variants; the fields a variant
\* does not have are left at their zero value and never read for it.
KindRec(type, name, cmdline, sent, recv, path, size, success) ==
    [bytes_recv |-> recv, bytes_sent |-> sent, cmdline |-> cmdline, name |-> name,
     path |-> path, size |-> size, success |-> success, type |-> type]

\* cmdline is Option<String>: <<>> is None, <<n>> is Some(string of n bytes)
ProcessKind(name, cmdline) == KindRec("process", name, cmdline, 0, 0, "", 0, FALSE)
NetworkKind(sent, recv) == KindRec("network", "", <<>>, sent, recv, "", 0, FALSE)
FileKind(path, size) == KindRec("file_integrity", "", <<>>, 0, 0, path, size, FALSE)
PrivilegeKind(success) == KindRec("privilege", "", <<>>, 0, 0, "", 0, success)

\* The event kinds the collectors hand out in the model.
KindPool ==
    { ProcessKind("sh", <<4>>), ProcessKind("ls", <<>>),
      NetworkKind(600000000, 7), FileKind("/etc/passwd", 600000000),
      PrivilegeKind(TRUE), PrivilegeKind(FALSE) }

Event(id, ts, kind) == [id |-> id, kind |-> kind, ts |-> ts]

(***************************************************************************)
(* BehavioralStats (features/behavioral.rs).  An f32 is kept as the exact  *)
(* fraction num/den in lowest terms; 0.0 is 0/1.                           *)
(***************************************************************************)
RECURSIVE Gcd(_, _)
Gcd(a, b) == IF b = 0 THEN a ELSE Gcd(b, a % b)

Rat(n, d) == IF n = 0 THEN [den |-> 1, num |-> 0]
             ELSE [den |-> d \div Gcd(n, d), num |-> n \div Gcd(n, d)]

Zero == Rat(0, 1)

OfType(events, type) == SelectSeq(events, LAMBDA e : e.kind.type = type)

Range(s) == { s[i] : i \in 1..Len(s) }

from_events(events) ==
    LET procs == OfType(events, "process")
        nets == OfType(events, "network")
        files == OfType(events, "file_integrity")
        privs == OfType(events, "privilege")
        withCmd == SelectSeq(procs, LAMBDA e : e.kind.cmdline # <<>>)
        cmdline_lens == [ i \in 1..Len(withCmd) |-> withCmd[i].kind.cmdline[1] ]
        sent == [ i \in 1..Len(nets) |-> nets[i].kind.bytes_sent ]
        recv == [ i \in 1..Len(nets) |-> nets[i].kind.bytes_recv ]
        sizes == [ i \in 1..Len(files) |-> files[i].kind.size ]
    IN  [avg_cmdline_len |-> IF withCmd = <<>> THEN Zero
                              ELSE Rat(SeqSum(cmdline_lens), Len(cmdline_lens)),
         file_count |-> Len(files), network_count |-> Len(nets),
         privilege_count |-> Len(privs),
         privilege_fail |-> Len(SelectSeq(privs, LAMBDA e : ~e.kind.success)),
         privilege_success |-> Len(SelectSeq(privs, LAMBDA e : e.kind.success)),
         process_count |-> Len(procs), total_bytes_recv |-> SeqSum(recv),
         total_bytes_sent |-> SeqSum(sent), total_file_size |-> SeqSum(sizes),
         unique_file_paths |-> Cardinality({ e.kind.path : e \in Range(files) }),
         unique_process_names |-> Cardinality({ e.kind.name : e \in Range(procs) })]

Giga == 1000000000

\* (x as f64 / 1e9).min(1.0) as f32
ClampedGiga(x) == IF x >= Giga THEN Rat(1, 1) ELSE Rat(x, Giga)

RawLen == 12

RawVector(s) ==
    << Rat(s.process_count, 1000),
       Rat(s.network_count, 1000),
       Rat(s.file_count, 1000),
       Rat(s.privilege_count, 100),
       Rat(s.unique_process_names, 500),
       Rat(s.avg_cmdline_len.num, s.avg_cmdline_len.den * 1000),
       ClampedGiga(s.total_bytes_sent),
       ClampedGiga(s.total_bytes_recv),
       Rat(s.unique_file_paths, 1000),
       ClampedGiga(s.total_file_size),
       Rat(s.privilege_success, 100),
       Rat(s.privilege_fail, 100) >>

\* A wrong encoding: pads a short vector but never drops statistics.
to_vector_no_truncate(s, dim) ==
    LET raw == RawVector(s)
    IN  [ i \in 1..(IF dim > Len(raw) THEN dim ELSE Len(raw)) |->
            IF i <= Len(raw) THEN raw[i] ELSE Zero ]

to_vector(s, dim) ==
    LET raw == RawVector(s)
        copy == Min(Len(raw), dim)
    IN  [ i \in 1..dim |-> IF i <= copy THEN raw[i] ELSE Zero ]

(***************************************************************************)
(* SecureStore (storage/encrypted.rs)                                      *)
(*                                                                         *)
(* Values.  Option<T>: <<>> is None, <<x>> is Some(x).  An f32 score is    *)
(* written in thousandths (500 is 0.5); NaN is the one f32 that is not a   *)
(* number.  A byte has two bits (0..3); byte 3 stands for a byte that can  *)
(* not occur in UTF-8 text (such as 0xFF), so a &str holds bytes 0..2.     *)
(***************************************************************************)
NaN == -1

NONCE_LEN == 12
TAG_LEN == 16

Bytes == 0..3
Utf8Bytes == 0..2

RECURSIVE SeqsUpTo(_, _)
SeqsUpTo(S, n) ==
    IF n = 0 THEN { <<>> }
    ELSE LET shorter == SeqsUpTo(S, n - 1)
         IN  shorter \cup { Append(q, x) : q \in { r \in shorter : Len(r) = n - 1 }, x \in S }

Payloads == SeqsUpTo(Utf8Bytes, MaxPayloadLen)
PayloadPool == { <<>>, <<2>> }
Secrets == {1, 2}
Nonces == {0, 1}
TsPool == {10, 20, 30}
ScorePool == { <<>>, <<500>>, <<NaN>> }
StoreIds == {1, 2}

\* Result<T, E>
Ok(v) == [ok |-> TRUE, val |-> v]
Err(e) == [ok |-> FALSE, val |-> e]

\* SHA-256 of the secret as a symbolic digest: equal exactly for equal secrets.
derive_key(secret) == [sha256 |-> secret]

\* Bitwise exclusive or of two 2-bit bytes.
Xor(a, b) == (((a % 2) + (b % 2)) % 2) + 2 * (((a \div 2) + (b \div 2)) % 2)

\* AES-256 in counter mode: the key stream byte i under (key, nonce).
KeyStream(k, nonce, i) == (k.sha256 + (2 * nonce) + i) % 4

CtrXor(k, nonce, data) ==
    [ i \in 1..Len(data) |-> Xor(data[i], KeyStream(k, nonce, i)) ]

\* A tag that does not depend on the key: it authenticates under every key.
GcmTagKeyless(k, nonce, ct) == [c |-> ct, flip |-> 0, k |-> 0, n |-> nonce]

\* The GCM tag as a symbolic term: it equals the tag of another (key, nonce,
\* ciphertext) only if all three agree; `flip` marks a tag with a bit flipped.
GcmTag(k, nonce, ct) == [c |-> ct, flip |-> 0, k |-> k, n |-> nonce]

\* cipher.encrypt(nonce, plaintext): ciphertext || tag
AeadEncrypt(k, nonce, plaintext) ==
    LET ct == CtrXor(k, nonce, plaintext)
    IN  [ct |-> ct, tag |-> GcmTag(k, nonce, ct)]

\* A decryption that does not authenticate: returns the bytes under any tag.
AeadDecryptNoTag(k, nonce, sealed) == Ok(CtrXor(k, nonce, sealed.ct))

\* cipher.decrypt(nonce, ct): the plaintext, or an error when the tag does not
\* authenticate (key, nonce, ciphertext)
AeadDecrypt(k, nonce, sealed) ==
    IF sealed.tag = GcmTag(k, nonce, sealed.ct)
    THEN Ok(CtrXor(k, nonce, sealed.ct))
    ELSE Err("aead")

\* BASE64.encode / BASE64.decode: the text of `raw`; `wellformed` is false for
\* a text that is not the canonical base64 of any byte string.
Base64Encode(raw) == [raw |-> raw, wellformed |-> TRUE]
Base64Decode(text) == IF text.wellformed THEN Ok(text.raw) ELSE Err("base64")

\* nonce || ciphertext || tag, `len` bytes long
RawBlob(nonce, sealed) ==
    [len |-> NONCE_LEN + Len(sealed.ct) + TAG_LEN, nonce |-> nonce, sealed |-> sealed]

\* An encrypt that encrypts under the drawn nonce but writes a zero nonce.
encryptZeroNonce(k, plaintext, nonce) ==
    Ok(Base64Encode(RawBlob(0, AeadEncrypt(k, nonce, plaintext))))

\* encrypt(key, plaintext); `nonce` is what thread_rng().fill_bytes drew
encrypt(k, plaintext, nonce) ==
    Ok(Base64Encode(RawBlob(nonce, AeadEncrypt(k, nonce, plaintext))))

\* decrypt(key, encoded)
decrypt(k, encoded) ==
    LET raw == Base64Decode(encoded)
    IN  IF ~raw.ok THEN raw
        ELSE IF raw.val.len < NONCE_LEN THEN Err("payload too short")
        ELSE IF raw.val.len # NONCE_LEN + Len(raw.val.sealed.ct) + TAG_LEN
             THEN Err("aead")     \* split_at(12) of a cut blob: the tag cannot match
        ELSE AeadDecrypt(k, raw.val.nonce, raw.val.sealed)

\* String::from_utf8(plain).unwrap_or_default()
Utf8OrDefault(plain) ==
    IF \A i \in 1..Len(plain) : plain[i] \in Utf8Bytes THEN plain ELSE <<>>

\* rusqlite binds Option<f32> to a REAL column: None is NULL, and SQLite stores
\* a NaN double as NULL (sqlite3_bind_double); every other f32 is kept exactly.
BindReal(score) == IF score = <<NaN>> THEN <<>> ELSE score

Row(id, ts, kind, payload_enc, risk_score) ==
    [id |-> id, kind |-> kind, payload_enc |-> payload_enc, risk_score |-> risk_score,
     ts |-> ts]

RowsWithId(rows, id) == { r \in rows : r.id = id }

\* INSERT OR IGNORE: a row whose id is taken is not written.
InsertOrIgnore(rows, row) ==
    IF RowsWithId(rows, row.id) # {} THEN rows ELSE rows \cup {row}

\* INSERT OR REPLACE on PRIMARY KEY id: rows in conflict are deleted first.
InsertOrReplace(rows, row) == (rows \ RowsWithId(rows, row.id)) \cup {row}

\* DELETE FROM events WHERE ts <= ?1 (wrong comparison)
RowsPrunedInclusive(rows, ts) == { r \in rows : r.ts <= ts }

\* DELETE FROM events WHERE ts < ?1: the rows deleted
RowsPruned(rows, ts) == { r \in rows : r.ts < ts }

\* A risk_score column that holds a TEXT value (written from outside the
\* program): row.get(2) cannot convert it to Option<f32>.
SqlText == -2

\* SELECT ts, payload_enc, risk_score FROM events WHERE id = ?1, then decrypt:
\* what get_event returns when prepare, query and next succeed.  The three
\* columns are read (row.get(0..2)?) before the payload is decrypted.
GetEventResult(rows, k, id) ==
    IF RowsWithId(rows, id) = {} THEN Ok(<<>>)
    ELSE LET row == CHOOSE r \in RowsWithId(rows, id) : TRUE
             plain == decrypt(k, row.payload_enc)
         IN  IF row.risk_score = <<SqlText>> THEN Err("column")
             ELSE IF ~plain.ok THEN plain
             ELSE Ok(<< [payload |-> Utf8OrDefault(plain.val), score |-> row.risk_score,
                         ts |-> row.ts] >>)

NoRet == [op |-> "none"]

\* History only: whether an insert replaces a stored record that differs from
\* it in timestamp, payload and score.
Overwrites(old, ts, payload, score) ==
    /\ old # <<>>
    /\ old[1].ts # ts /\ old[1].payload # payload /\ old[1].score # score

\* insert_event(id, ts, kind, payload_json, risk_score); `sql_ok` is whether the
\* SQLite statement succeeded (it fails on an I/O error, a full disk, a lock).
insert_event(id, ts, kind, payload_json, risk_score, nonce, sql_ok) ==
    LET enc == encrypt(key, payload_json, nonce)
    IN  /\ IF enc.ok /\ sql_ok
           THEN /\ events_table' = InsertOrReplace(events_table,
                        Row(id, ts, kind, enc.val, BindReal(risk_score)))
                /\ written' = [written EXCEPT ![id] =
                        << [key |-> key,
                            overwrote |-> Overwrites(written[id], ts, payload_json,
                                                     risk_score),
                            payload |-> payload_json, reopened |-> FALSE,
                            score |-> risk_score, ts |-> ts] >>]
                /\ altered' = altered \ {id}
           ELSE UNCHANGED <<events_table, written, altered>>
        /\ storeRet' = [id |-> id, op |-> "insert",
                        ret |-> IF enc.ok /\ sql_ok THEN Ok(<<>>) ELSE Err("sql")]
        /\ UNCHANGED key

\* get_event(id); `sql_ok` is whether prepare, query and next succeeded (they
\* fail on a locked database, an I/O error): `?` returns the error.
get_event(id, sql_ok) ==
    /\ storeRet' = [id |-> id, op |-> "get",
                    ret |-> IF sql_ok THEN GetEventResult(events_table, key, id)
                            ELSE Err("sql")]
    /\ UNCHANGED <<key, events_table, written, altered>>

\* prune_before(ts); `sql_ok` is whether the DELETE statement succeeded: when
\* it fails no row is deleted and `?` returns the error.
prune_before(ts, sql_ok) ==
    LET gone == RowsPruned(events_table, ts)
    IN  IF sql_ok
        THEN /\ events_table' = events_table \ gone
             /\ storeRet' = [op |-> "prune", ret |-> Ok(Cardinality(gone)), ts |-> ts]
             /\ written' = [ i \in DOMAIN written |->
                               IF written[i] # <<>> /\ written[i][1].ts < ts
                               THEN <<>> ELSE written[i] ]
             /\ altered' = altered \ { r.id : r \in gone }
             /\ UNCHANGED key
        ELSE /\ storeRet' = [op |-> "prune", ret |-> Err("sql"), ts |-> ts]
             /\ UNCHANGED <<key, events_table, written, altered>>

\* The ways a stored blob can be altered from outside the program.
AlteredBlobs(text) ==
    LET raw == text.raw
        s == raw.sealed
    IN  { [text EXCEPT !.raw.nonce = 1 - raw.nonce] }
        \cup { [text EXCEPT !.raw.sealed.ct[i] = Xor(s.ct[i], bit)] :
                 i \in 1..Len(s.ct), bit \in {1, 2} }
        \cup { [text EXCEPT !.raw.sealed.tag.flip = 1] }
        \cup { [text EXCEPT !.raw.len = n] : n \in {NONCE_LEN - 1, raw.len - 1} }
        \cup { [text EXCEPT !.wellformed = FALSE] }

\* A row's payload_enc is overwritten in the database file.
AlterBlob(id) ==
    /\ id \notin altered
    /\ \E row \in RowsWithId(events_table, id) :
         \E text \in AlteredBlobs(row.payload_enc) :
            events_table' = (events_table \ {row})
                              \cup { [row EXCEPT !.payload_enc = text] }
    /\ altered' = altered \cup {id}
    /\ storeRet' = NoRet
    /\ UNCHANGED <<key, written>>

\* A row's risk_score is overwritten in the database file with a TEXT value.
AlterColumn(id) ==
    /\ id \notin altered
    /\ \E row \in RowsWithId(events_table, id) :
         events_table' = (events_table \ {row})
                           \cup { [row EXCEPT !.risk_score = <<SqlText>>] }
    /\ altered' = altered \cup {id}
    /\ storeRet' = NoRet
    /\ UNCHANGED <<key, written>>

StoreUnused ==
    /\ key = derive_key(1)
    /\ events_table = {}
    /\ storeRet = NoRet
    /\ written = <<>>
    /\ altered = {}

WindowUnused ==
    /\ window_events = 0
    /\ feature_dim = 0
    /\ window = <<>>
    /\ inserted = <<>>
    /\ pushRet = <<>>
    /\ flushRet = <<>>

\* SecureStore::open on a fresh path; `ids` are the ids the behaviour will use.
OpenFresh(ids) ==
    /\ \E secret \in Secrets : key = derive_key(secret)
    /\ events_table = {}
    /\ storeRet = NoRet
    /\ written = [ i \in ids |-> <<>> ]
    /\ altered = {}

\* SecureStore::open(path, secret) on the path of the present store: the
\* handle is replaced, CREATE TABLE IF NOT EXISTS keeps the rows, the key is
\* derived from the secret.  `sql_ok` is whether Connection::open and
\* execute_batch succeeded (they fail on a locked database, a path that cannot
\* be opened): when they fail `?` returns the error, there is no new handle
\* and the caller is left with the one it had.  History: the records written
\* so far are marked as written through an earlier handle.
SecureStore_open(secret, sql_ok) ==
    IF sql_ok
    THEN /\ key' = derive_key(secret)
         /\ storeRet' = [op |-> "open", ret |-> Ok(<<>>)]
         /\ written' = [ i \in DOMAIN written |->
                           IF written[i] = <<>> THEN <<>>
                           ELSE << [written[i][1] EXCEPT !.reopened = TRUE] >> ]
         /\ UNCHANGED <<events_table, altered>>
    ELSE /\ storeRet' = [op |-> "open", ret |-> Err("sql")]
         /\ UNCHANGED <<key, events_table, written, altered>>

InsertOver(ids, tss, payloads, scores) ==
    \E id \in ids, ts \in tss, payload \in payloads, score \in scores,
       nonce \in Nonces, sql_ok \in BOOLEAN :
        insert_event(id, ts, "process", payload, score, nonce, sql_ok)

GetOver(ids, sqls) == \E id \in ids, sql_ok \in sqls : get_event(id, sql_ok)

PruneOver(tss, sqls) == \E ts \in tss, sql_ok \in sqls : prune_before(ts, sql_ok)

AlterOver(ids) == \E id \in ids : AlterBlob(id) \/ AlterColumn(id)

\* SpecStore: inserts, reads and pruning over two ids.
InitStore == OpenFresh(StoreIds) /\ WindowUnused /\ DaemonUnused

NextStore ==
    \/ InsertOver(StoreIds, {10, 20}, PayloadPool, ScorePool) /\ UNCHANGED <<windowVars, daemonVars>>
    \/ GetOver(StoreIds, BOOLEAN) /\ UNCHANGED <<windowVars, daemonVars>>
    \/ PruneOver({20}, BOOLEAN) /\ UNCHANGED <<windowVars, daemonVars>>

SpecStore == InitStore /\ [][NextStore]_vars

\* SpecTamper: one record, every payload up to MaxPayloadLen bytes, and every
\* alteration of its stored blob.
InitTamper == OpenFresh({1}) /\ WindowUnused /\ DaemonUnused

NextTamper ==
    \/ InsertOver({1}, {10}, Payloads, {<<500>>}) /\ UNCHANGED <<windowVars, daemonVars>>
    \/ GetOver({1}, BOOLEAN) /\ UNCHANGED <<windowVars, daemonVars>>
    \/ AlterOver({1}) /\ UNCHANGED <<windowVars, daemonVars>>

SpecTamper == InitTamper /\ [][NextTamper]_vars

\* SpecRetention: records under MaxIds ids with timestamps 10, 20, 30, pruned
\* at every cutoff around them, and a prune whose DELETE statement fails.
InitRetention == OpenFresh(1..MaxIds) /\ WindowUnused /\ DaemonUnused

NextRetention ==
    \/ InsertOver(1..MaxIds, TsPool, {<<1>>}, {<<500>>}) /\ UNCHANGED <<windowVars, daemonVars>>
    \/ GetOver({1}, {TRUE}) /\ UNCHANGED <<windowVars, daemonVars>>
    \/ PruneOver(TsPool \cup {40}, {TRUE}) /\ UNCHANGED <<windowVars, daemonVars>>
    \/ PruneOver({20}, {FALSE}) /\ UNCHANGED <<windowVars, daemonVars>>

SpecRetention == InitRetention /\ [][NextRetention]_vars

\* SpecReopen: inserts and reads over two ids, the store being reopened at
\* any moment with either secret.
InitReopen == OpenFresh(StoreIds) /\ WindowUnused /\ DaemonUnused

NextReopen ==
    \/ InsertOver(StoreIds, {10}, PayloadPool, ScorePool) /\ UNCHANGED <<windowVars, daemonVars>>
    \/ GetOver(StoreIds, BOOLEAN) /\ UNCHANGED <<windowVars, daemonVars>>
    \/ (\E secret \in Secrets, sql_ok \in BOOLEAN : SecureStore_open(secret, sql_ok))
          /\ UNCHANGED <<windowVars, daemonVars>>

SpecReopen == InitReopen /\ [][NextReopen]_vars

(***************************************************************************)
(* Claims about the store                                                  *)
(***************************************************************************)
\* What the latest insert of `id` was given, as a get_event value.
Given(id) == [payload |-> written[id][1].payload, score |-> written[id][1].score,
              ts |-> written[id][1].ts]

\* The same with a NaN score read back as absent.
GivenNaNAbsent(id) ==
    [Given(id) EXCEPT !.score = IF @ = <<NaN>> THEN <<>> ELSE @]

\* The SQL statement of the call ran: the call did not return the error of
\* SQLite itself (a locked database, an I/O error).
StatementRan(ret) == ret.ok \/ ret.val # "sql"

\* A read, whose statement ran, of a record that is in the store as the
\* program wrote it.
GetOfStored ==
    /\ storeRet.op = "get"
    /\ StatementRan(storeRet.ret)
    /\ written[storeRet.id] # <<>>
    /\ storeRet.id \notin altered

\* C3 as stated: get_event after insert_event (no later insert of the id, no
\* prune covering ts) returns exactly the (ts, payload, score) inserted, for
\* every score.
C3_RoundTripEveryScore ==
    GetOfStored => storeRet.ret = Ok(<< Given(storeRet.id) >>)

\* What the code does for C3: get_event after insert_event returns the ts and
\* the payload inserted, and the score inserted except that a NaN score comes
\* back absent.
C3_RoundTrip ==
    GetOfStored => storeRet.ret = Ok(<< GivenNaNAbsent(storeRet.id) >>)

\* C3 witness: a record with a non-empty payload and score 0.5 was read back.
C3_Witness ==
    /\ GetOfStored
    /\ Given(storeRet.id).payload # <<>>
    /\ Given(storeRet.id).score = <<500>>
    /\ storeRet.ret.ok

\* C4: get_event of a record whose stored blob was altered returns an error.
C4_TamperDetected ==
    (storeRet.op = "get" /\ storeRet.id \in altered) => ~storeRet.ret.ok

\* C4 witness: the blob of a record with a non-empty payload was altered and
\* the record then read: the statement ran, the columns were read and the
\* decryption returned the error.
C4_Witness ==
    /\ storeRet.op = "get"
    /\ storeRet.id \in altered
    /\ written[storeRet.id][1].payload # <<>>
    /\ \A r \in RowsWithId(events_table, storeRet.id) : r.risk_score # <<SqlText>>
    /\ ~storeRet.ret.ok
    /\ storeRet.ret.val \notin {"sql", "column"}

AtMostOneRowPerId ==
    \A id \in DOMAIN written : Cardinality(RowsWithId(events_table, id)) <= 1

\* C5 as stated: at most one record per id, and get_event returns the ts,
\* payload and score of the most recent insert of the id, for every score.
C5_UpsertEveryScore ==
    /\ AtMostOneRowPerId
    /\ \A id \in DOMAIN written :
         (written[id] # <<>> /\ id \notin altered) =>
            GetEventResult(events_table, key, id) = Ok(<< Given(id) >>)

\* What the code does for C5: at most one record per id, and get_event returns
\* the ts and payload of the most recent insert of the id and its score, a NaN
\* score coming back absent; nothing of the earlier row survives.
C5_Upsert ==
    /\ AtMostOneRowPerId
    /\ \A id \in DOMAIN written :
         (written[id] # <<>> /\ id \notin altered) =>
            GetEventResult(events_table, key, id) = Ok(<< GivenNaNAbsent(id) >>)

\* C5 witness: an id was inserted a second time with another ts, payload and
\* score, and was then read.
C5_Witness ==
    /\ storeRet.op = "get"
    /\ written[storeRet.id] # <<>>
    /\ written[storeRet.id][1].overwrote
    /\ storeRet.ret.ok

\* C6: prune_before(t), when its DELETE statement runs, deletes exactly the
\* rows with ts < t, returns their number, and leaves get_event of every
\* other id as it was; when the statement fails it returns the error and
\* deletes nothing.
C6_PruneStep ==
    /\ (storeRet'.op = "prune" /\ StatementRan(storeRet'.ret)) =>
        LET t == storeRet'.ts
            gone == { r \in events_table : r.ts < t }
        IN  /\ events_table' = events_table \ gone
            /\ storeRet'.ret = Ok(Cardinality(gone))
            /\ \A r \in events_table :
                 r.ts >= t => /\ GetEventResult(events_table', key', r.id).ok
                              /\ GetEventResult(events_table', key', r.id)
                                   = GetEventResult(events_table, key, r.id)
            /\ \A r \in gone : GetEventResult(events_table', key', r.id) = Ok(<<>>)
    /\ (storeRet'.op = "prune" /\ ~StatementRan(storeRet'.ret)) =>
          events_table' = events_table

C6_PruneExact == [][C6_PruneStep]_vars

\* C6 witness: records with ts 10, 20 and 30 were stored, prune_before(20)
\* returned 1 and the records with ts 20 and 30 remain.
C6_Witness ==
    /\ storeRet.op = "prune"
    /\ storeRet.ts = 20
    /\ storeRet.ret = Ok(1)
    /\ { r.ts : r \in events_table } = {20, 30}
    /\ Cardinality(events_table) = 2


(***************************************************************************)
(* FeatureExtractor (features/pipeline.rs)                                 *)
(***************************************************************************)
\* A wrong eviction: drops the newest element instead of the oldest.
RECURSIVE EvictBack(_, _)
EvictBack(w, cap) ==
    IF Len(w) > cap THEN EvictBack(SubSeq(w, 1, Len(w) - 1), cap) ELSE w

\* while w.len() > window_events { w.pop_front(); }
RECURSIVE Evict(_, _)
Evict(w, cap) == IF Len(w) > cap THEN Evict(Tail(w), cap) ELSE w

\* A wrong insertion loop: appends the whole batch and evicts once at the end.
PushBackOnePop(w, events, cap) ==
    LET all == w \o events IN IF Len(all) > cap THEN Tail(all) ELSE all

\* for e in events { w.push_back(e); while ... }
RECURSIVE PushBackAll(_, _, _)
PushBackAll(w, events, cap) ==
    IF events = <<>> THEN w
    ELSE PushBackAll(Evict(Append(w, Head(events)), cap), Tail(events), cap)

\* A wrong tag: the id of the oldest event of the snapshot.
VectorOfFirst(snapshot, dim) ==
    [dim |-> dim,
     event_id |-> IF snapshot = <<>> THEN EmptyId ELSE snapshot[1].id,
     values |-> to_vector(from_events(snapshot), dim)]

\* The vector built from a window snapshot (push lines 39-48, flush 61-67).
\* The creation timestamp (Utc::now) is not part of the model.
VectorOf(snapshot, dim) ==
    [dim |-> dim,
     event_id |-> IF snapshot = <<>> THEN EmptyId
                   ELSE snapshot[Len(snapshot)].id,
     values |-> to_vector(from_events(snapshot), dim)]

\* A wrong push: one vector per event of the snapshot.
PushResultPerEvent(snapshot, dim) ==
    [ i \in 1..Len(snapshot) |-> VectorOf(SubSeq(snapshot, 1, i), dim) ]

PushResult(snapshot, dim) ==
    IF snapshot = <<>> THEN <<>> ELSE << VectorOf(snapshot, dim) >>

FlushResult(snapshot, dim) ==
    IF snapshot = <<>> THEN <<>> ELSE << VectorOf(snapshot, dim) >>

\* Batches of k fresh events (Event::new), numbered from `first`.
Batches(first, ts, pool, k) ==
    { [ i \in 1..k |-> Event(first + i - 1, ts, kinds[i]) ] :
        kinds \in [1..k -> pool] }

\* A wrong push: the statistics cover the pushed batch, not the window.
PushStatsOfBatch(events) ==
    /\ window' = PushBackAll(window, events, window_events)
    /\ inserted' = inserted \o events
    /\ pushRet' = PushResult(IF window' = <<>> THEN <<>> ELSE events, feature_dim)
    /\ UNCHANGED <<window_events, feature_dim, flushRet>>

Push(events) ==
    /\ window' = PushBackAll(window, events, window_events)
    /\ inserted' = inserted \o events
    /\ pushRet' = PushResult(window', feature_dim)
    /\ UNCHANGED <<window_events, feature_dim, flushRet>>

\* A wrong flush: it takes the events out of the window.
FlushDrain ==
    /\ flushRet' = FlushResult(window, feature_dim)
    /\ window' = <<>>
    /\ UNCHANGED <<window_events, feature_dim, inserted, pushRet>>

Flush ==
    /\ flushRet' = FlushResult(window, feature_dim)
    /\ UNCHANGED <<window_events, feature_dim, window, inserted, pushRet>>

InitWindow ==
    /\ window_events \in 0..MaxCap
    /\ feature_dim \in DimPool
    /\ window = <<>>
    /\ inserted = <<>>
    /\ pushRet = <<>>
    /\ flushRet = <<>>
    /\ StoreUnused
    /\ DaemonUnused

PushStep ==
    \E k \in 0..MaxBatch :
        /\ Len(inserted) + k <= MaxEvents
        /\ \E batch \in Batches(Len(inserted) + 1, 0, KindPool, k) : Push(batch)

NextWindow ==
    \/ PushStep /\ UNCHANGED <<storeVars, daemonVars>>
    \/ Flush /\ UNCHANGED <<storeVars, daemonVars>>

SpecWindow == InitWindow /\ [][NextWindow]_vars

(***************************************************************************)
(* Claims about the window                                                 *)
(***************************************************************************)
LastN(s, n) == SubSeq(s, Len(s) - n + 1, Len(s))

\* C1: after every push, whatever the batch sizes, the window holds at most
\* window_events events.
C1_WindowBound == Len(window) <= window_events

\* C1 witness: the pushes that returned carried at least two events more than
\* the window holds (in one batch or in several), and the window is full.
C1_Witness ==
    /\ window_events >= 1
    /\ Len(inserted) > window_events + 1
    /\ Len(window) = window_events

\* C2: the window is exactly the most recent min(window_events, N) of the N
\* events inserted so far, in arrival order.
C2_StrictFifo ==
    window = LastN(inserted, Min(window_events, Len(inserted)))

\* C2 witness: capacity 2, three events inserted, the window holds the second
\* and the third.
C2_Witness ==
    /\ window_events = 2
    /\ Len(inserted) = 3
    /\ window = << inserted[2], inserted[3] >>

\* C14: push returns exactly one vector when the window is non-empty after
\* the insertions and an empty list when it is empty, whatever the batch size.
C14_ZeroOrOneVector ==
    Len(pushRet) = (IF window = <<>> THEN 0 ELSE 1)

\* C14 witness: a batch of three events pushed into a window of capacity two
\* returned one vector.
C14_Witness ==
    /\ window_events = 2
    /\ Len(inserted) = 3
    /\ Len(window) = 2
    /\ Len(pushRet) = 1

\* The number of events of one kind in a window, counted position by position.
CountKind(w, type) == Cardinality({ i \in 1..Len(w) : w[i].kind.type = type })

CountPrivilege(w, success) ==
    Cardinality({ i \in 1..Len(w) :
                    w[i].kind.type = "privilege" /\ w[i].kind.success = success })

\* C15: the vector returned by push encodes the statistics of exactly the
\* events in the window: the per-kind counts are those of the window, they sum
\* to the window length, and privilege_success + privilege_fail is the
\* privilege count.
C15_StatsOfWindow ==
    pushRet # <<>> =>
        LET stats == from_events(window)
        IN  /\ pushRet[1].values = to_vector(stats, feature_dim)
            /\ stats.process_count = CountKind(window, "process")
            /\ stats.network_count = CountKind(window, "network")
            /\ stats.file_count = CountKind(window, "file_integrity")
            /\ stats.privilege_count = CountKind(window, "privilege")
            /\ stats.privilege_success = CountPrivilege(window, TRUE)
            /\ stats.privilege_fail = CountPrivilege(window, FALSE)
            /\ stats.process_count + stats.network_count + stats.file_count
                  + stats.privilege_count = Len(window)
            /\ stats.privilege_success + stats.privilege_fail = stats.privilege_count

\* C15 witness: capacity 2, three events inserted one of which was evicted;
\* the vector of 12 entries counts one process and one privilege event.
C15_Witness ==
    /\ window_events = 2
    /\ Len(inserted) = 3
    /\ feature_dim = 12
    /\ inserted[1].kind.type = "network"
    /\ window[1].kind.type = "process"
    /\ window[2].kind.type = "privilege"
    /\ pushRet # <<>>
    /\ pushRet[1].values[1] = Rat(1, 1000)
    /\ pushRet[1].values[2] = Zero
    /\ pushRet[1].values[4] = Rat(1, 100)

\* The i-th entry of the fixed encoding order, for the statistics s.
EntryOf(s, i) ==
    CASE i = 1 -> Rat(s.process_count, 1000)
      [] i = 2 -> Rat(s.network_count, 1000)
      [] i = 3 -> Rat(s.file_count, 1000)
      [] i = 4 -> Rat(s.privilege_count, 100)
      [] i = 5 -> Rat(s.unique_process_names, 500)
      [] i = 6 -> Rat(s.avg_cmdline_len.num, s.avg_cmdline_len.den * 1000)
      [] i = 7 -> IF s.total_bytes_sent >= Giga THEN Rat(1, 1)
                  ELSE Rat(s.total_bytes_sent, Giga)
      [] i = 8 -> IF s.total_bytes_recv >= Giga THEN Rat(1, 1)
                  ELSE Rat(s.total_bytes_recv, Giga)
      [] i = 9 -> Rat(s.unique_file_paths, 1000)
      [] i = 10 -> IF s.total_file_size >= Giga THEN Rat(1, 1)
                   ELSE Rat(s.total_file_size, Giga)
      [] i = 11 -> Rat(s.privilege_success, 100)
      [] i = 12 -> Rat(s.privilege_fail, 100)
      [] OTHER -> Zero

\* C16: a produced vector has exactly feature_dim entries; entry i up to
\* min(12, dim) is the i-th statistic of the fixed order, the entries after the
\* twelfth are zero, and statistics beyond dim are dropped.
C16_VectorLayout ==
    /\ \A v \in Range(pushRet) \cup Range(flushRet) :
          v.dim = feature_dim /\ Len(v.values) = feature_dim
    /\ pushRet # <<>> =>
          \A i \in 1..feature_dim :
              pushRet[1].values[i] = EntryOf(from_events(window), i)

\* C16 witness: a vector of 14 entries over a window with a process that has
\* a command line and a network event of 600 MB sent.
C16_Witness ==
    /\ feature_dim = 14
    /\ pushRet # <<>>
    /\ Len(pushRet[1].values) = 14
    /\ pushRet[1].values[6] = Rat(4, 1000)
    /\ pushRet[1].values[7] = Rat(6, 10)
    /\ pushRet[1].values[13] = Zero

\* C17: a vector returned by push carries the id of the most recently inserted
\* event, which is the last element of the window.
C17_TaggedWithLast ==
    pushRet # <<>> =>
        /\ pushRet[1].event_id = window[Len(window)].id
        /\ pushRet[1].event_id = inserted[Len(inserted)].id

\* C17 witness: two events are in the window and the vector carries the id of
\* the second.
C17_Witness ==
    /\ Len(window) = 2
    /\ pushRet # <<>>
    /\ pushRet[1].event_id = window[2].id
    /\ window[1].id # window[2].id

\* What a push of an empty batch returns for the window, as an Option.
EmptyPushResult ==
    PushResult(PushBackAll(window, <<>>, window_events), feature_dim)

C18_Step ==
    /\ window' # window => inserted' # inserted
    /\ flushRet' # flushRet =>
          /\ window' = window
          /\ flushRet' = EmptyPushResult

\* C18: flush leaves the window as it was; it returns nothing for an empty
\* window and otherwise the vector a push of an empty batch would return.
C18_FlushReadOnly ==
    /\ [][C18_Step]_vars
    /\ [](window = <<>> => flushRet = <<>>)

\* C18 witness: flush returned a vector for a window of two events, the window
\* being still in place.
C18_Witness ==
    /\ flushRet # <<>>
    /\ Len(window) = 2
    /\ flushRet[1].event_id = window[2].id
    /\ flushRet = pushRet

(***************************************************************************)
(* RiskEngine (risk/engine.rs) and OnnxDetector::predict (model/onnx.rs)   *)
(***************************************************************************)
\* a >= b on f32: false when either side is NaN
FGe(a, b) == a # NaN /\ b # NaN /\ a >= b

\* A wrong mapping: the bounds are exclusive.
from_score_exclusive(s, high, medium) ==
    IF FGe(s, high) /\ s # high THEN "High"
    ELSE IF FGe(s, medium) /\ s # medium THEN "Medium" ELSE "Low"

from_score(s, high, medium) ==
    IF FGe(s, high) THEN "High" ELSE IF FGe(s, medium) THEN "Medium" ELSE "Low"

\* A wrong engine: the medium threshold is tested first.
RiskEngine_score_medium_first(event_id, raw_score) ==
    [event_id |-> event_id,
     level |-> IF FGe(raw_score, risk_config.medium_threshold) THEN "Medium"
               ELSE IF FGe(raw_score, risk_config.high_threshold) THEN "High"
               ELSE "Low",
     score |-> raw_score]

\* RiskEngine::score (the timestamp is not part of the model)
RiskEngine_score(event_id, raw_score) ==
    [event_id |-> event_id,
     level |-> from_score(raw_score, risk_config.high_threshold,
                          risk_config.medium_threshold),
     score |-> raw_score]

\* f32::clamp(0.0, 1.0): NaN stays NaN
Clamp01(x) == IF x = NaN THEN NaN ELSE IF x < 0 THEN 0 ELSE IF x > 1000 THEN 1000 ELSE x

\* OnnxDetector::predict; `out` is what the session produced for the vector:
\* <<>> when the run or the extraction failed, <<x>> for a first output x.
predict(has_session, out) ==
    IF ~has_session THEN 0 ELSE IF out = <<>> THEN 0 ELSE Clamp01(out[1])

(***************************************************************************)
(* UplinkClient::report (uplink.rs).  A POST is a blocking call; `ok` says *)
(* whether it succeeded.                                                   *)
(***************************************************************************)
Post(path, id, ok) == [id |-> id, ok |-> ok, path |-> path]

\* A wrong ensure_device: it posts whether or not the device is registered.
DevicePostsAlways(registered, ok) ==
    << Post("/api/v1/devices", EmptyId, ok) >>

\* ensure_device: no POST once registered
DevicePosts(registered, ok) ==
    IF registered THEN <<>> ELSE << Post("/api/v1/devices", EmptyId, ok) >>

\* A wrong ensure_device: the flag is stored whatever the POST answered.
RegistersAlways(posts) == posts # <<>>

\* if self.post("/api/v1/devices", ..).is_ok() { self.device_registered.store(true, ..) }
Registers(posts) == posts # <<>> /\ posts[1].ok

\* for ev in events { .. }: where report is when i of the n events are posted
EventsLoop(i, n) == IF i < n THEN "report_events" ELSE "report_risk"

\* A wrong loop: the first failed events POST ends it.
AfterEventPostStopOnFailure(ok, i, n) ==
    IF ok THEN EventsLoop(i, n) ELSE "report_risk"

\* if let Err(e) = self.post("/api/v1/events", ..) { warn!(..) }: the loop
\* goes on after the i-th POST whether it succeeded or not
AfterEventPost(ok, i, n) == EventsLoop(i, n)

\* The events POSTs among `posts`
EventsPosted(posts) ==
    Cardinality({ k \in 1..Len(posts) : posts[k].path = "/api/v1/events" })

\* self.post("/api/v1/risk_scores", &payload)?; .. Ok(())
ReportResult(posts) == IF posts[Len(posts)].ok THEN Ok(<<>>) ELSE Err("post")

\* A wrong cycle: the report's error is returned by the cycle (`u.report(..)?`).
AfterReportPropagate(ret) == << ret >>

\* let _ = u.report(..); .. Ok(()): what run_one_cycle returns after report
AfterReport(ret) == << Ok(<<>>) >>

(***************************************************************************)
(* main() and run_one_cycle (main.rs)                                      *)
(***************************************************************************)
DeviceSecret == 1      \* b"device-secret-placeholder"

\* interval_secs as u32: the low 32 bits
AsU32(x) == x.lo
Positive(x) == x.hi > 0 \/ x.lo > 0
run_daemon == Positive(interval_secs)

\* serde_json::to_string(ev): the text of the event, two bytes in the model
TypeCode(type) ==
    CASE type = "process" -> 0 [] type = "network" -> 1
      [] type = "file_integrity" -> 2 [] OTHER -> 3
EventJson(ev) == << TypeCode(ev.kind.type) \div 2, TypeCode(ev.kind.type) % 2 >>

Exited == pc \in {"exit_ok", "exit_err"}

\* What startup leaves of the store: create_dir_all(..)? comes first, then
\* SecureStore::open(..)?, then OnnxDetector::load(..)?.
StoreAfterStartup(outcome) ==
    CASE outcome = "mkdir_failed" -> [key |-> key, ret |-> storeRet]
      [] outcome = "open_failed" ->
            [key |-> key, ret |-> [op |-> "open", ret |-> Err("open")]]
      [] OTHER ->
            [key |-> derive_key(DeviceSecret), ret |-> [op |-> "open", ret |-> Ok(<<>>)]]

\* A wrong startup: a store that failed to open is ignored and the loop entered.
StartupLenient(outcome) ==
    /\ pc = "start"
    /\ pc' = IF outcome \in {"ok", "open_failed"}
             THEN (IF run_daemon THEN "loop_check" ELSE "collect")
             ELSE "exit_err"
    /\ key' = StoreAfterStartup(outcome).key
    /\ storeRet' = StoreAfterStartup(outcome).ret
    /\ UNCHANGED <<events_table, written, altered>>
    /\ UNCHANGED <<windowVars, STOP, lockVars, interval_secs, uplink, session, risk_config,
                   device_registered, cycle, cycleVars, sleep_i, stopAt,
                   sleepsAfterStop>>

\* main lines 84-108: config, data directory, store, model, uplink
Startup(outcome) ==
    /\ pc = "start"
    /\ pc' = IF outcome = "ok"
             THEN (IF run_daemon THEN "loop_check" ELSE "collect")
             ELSE "exit_err"
    /\ key' = StoreAfterStartup(outcome).key
    /\ storeRet' = StoreAfterStartup(outcome).ret
    /\ UNCHANGED <<events_table, written, altered>>
    /\ UNCHANGED <<windowVars, STOP, lockVars, interval_secs, uplink, session, risk_config, device_registered,
                   cycle, cycleVars, sleep_i, stopAt, sleepsAfterStop>>

\* while !STOP.load(..): the flag is set, the loop ends
LoopExit ==
    /\ pc = "loop_check"
    /\ STOP
    /\ pc' = "exit_ok"
    /\ UNCHANGED <<windowVars, storeVars, STOP, lockVars, interval_secs, uplink, session, risk_config,
                   device_registered, cycle, cycleVars, sleep_i, stopAt, sleepsAfterStop>>

\* while !STOP.load(..) { cycle += 1; run_one_cycle(..
CycleStart ==
    /\ pc = "loop_check"
    /\ ~STOP
    /\ cycle < MaxCycles
    /\ cycle' = cycle + 1
    /\ pc' = "collect"
    /\ collected' = <<>>
    /\ cyc_events' = <<>> /\ cyc_score' = 0 /\ model_out' = <<>> /\ cyc_result' = <<>>
    /\ persisted' = 0 /\ cycleRet' = <<>> /\ reportRet' = <<>> /\ report_posts' = <<>>
    /\ UNCHANGED <<windowVars, storeVars, STOP, lockVars, interval_secs, uplink, session, risk_config,
                   device_registered, sleep_i, stopAt, sleepsAfterStop>>

\* CollectorPipeline: the collectors in the order collect_snapshot asks them,
\* each named by the source of its events
Collectors == << "process", "network", "file_integrity", "privilege" >>

\* What one snapshot() call contributes: out.extend(events) if it is Ok
EventsOf(result) == IF result.ok THEN result.val ELSE <<>>

\* A wrong collect_snapshot: the first failing collector ends the snapshot
\* (`self.process.snapshot()?` and so on).
collect_snapshot_until_error(results) ==
    LET upto[i \in 0..Len(Collectors)] ==
            IF i = 0 THEN <<>>
            ELSE IF \E j \in 1..i : ~results[Collectors[j]].ok
                 THEN upto[i - 1]
                 ELSE upto[i - 1] \o results[Collectors[i]].val
    IN  upto[Len(Collectors)]

\* collect_snapshot: `results` is what the four snapshot() calls return
collect_snapshot(results) ==
    EventsOf(results["process"]) \o EventsOf(results["network"])
      \o EventsOf(results["file_integrity"]) \o EventsOf(results["privilege"])

\* let events = collectors.collect_snapshot();
Collect(results) ==
    /\ pc = "collect"
    /\ collected' = results
    /\ cyc_events' = collect_snapshot(results)
    /\ pc' = "push"
    /\ UNCHANGED <<windowVars, storeVars, STOP, lockVars, interval_secs, uplink, session, risk_config,
                   device_registered, cycle, cyc_score, model_out, cyc_result, persisted,
                   cycleRet,
                   reportRet, report_posts, sleep_i, stopAt, sleepsAfterStop>>

\* let feature_vectors = features.push(events.clone());
\* push takes the window lock with `.lock().expect("lock")`: on a poisoned lock
\* the main thread panics inside run_one_cycle, which ends the process.
PushBatch ==
    /\ pc = "push"
    /\ IF LockResult("window") = "poisoned"
       THEN /\ pc' = "panicked"
            /\ UNCHANGED windowVars
       ELSE /\ Push(cyc_events)
            /\ pc' = "predict"
    /\ UNCHANGED <<storeVars, STOP, lockVars, interval_secs, uplink, session, risk_config, device_registered,
                   cycle, cycleVars, sleep_i, stopAt, sleepsAfterStop>>

\* A wrong scoring: the model is asked even when push returned no vector.
PredictAlways(out) ==
    /\ pc = "predict"
    /\ cyc_score' = predict(session, out)
    /\ model_out' = << out >>
    /\ pc' = "score"
    /\ UNCHANGED <<windowVars, storeVars, STOP, lockVars, interval_secs, uplink, session,
                   risk_config, device_registered, cycle, collected, cyc_events, cyc_result,
                   persisted, cycleRet, reportRet, report_posts, sleep_i, stopAt,
                   sleepsAfterStop>>

\* let score = feature_vectors.first().map(|fv| model.predict(fv)).unwrap_or(0.0);
Predict(out) ==
    /\ pc = "predict"
    /\ cyc_score' = IF pushRet = <<>> THEN 0 ELSE predict(session, out)
    /\ model_out' = IF pushRet = <<>> THEN <<>> ELSE << out >>
    /\ pc' = "score"
    /\ UNCHANGED <<windowVars, storeVars, STOP, lockVars, interval_secs, uplink, session, risk_config,
                   device_registered, cycle, collected, cyc_events, cyc_result, persisted,
                   cycleRet,
                   reportRet, report_posts, sleep_i, stopAt, sleepsAfterStop>>

\* let result = ... risk_engine.score(fv.event_id.clone(), score, fv.ts) ...
Score ==
    /\ pc = "score"
    /\ cyc_result' = << RiskEngine_score(IF pushRet = <<>> THEN EmptyId
                                         ELSE pushRet[1].event_id, cyc_score) >>
    /\ pc' = "persist"
    /\ UNCHANGED <<windowVars, storeVars, STOP, lockVars, interval_secs, uplink, session, risk_config,
                   device_registered, cycle, collected, cyc_events, cyc_score, model_out,
                   persisted, cycleRet,
                   reportRet, report_posts, sleep_i, stopAt, sleepsAfterStop>>

\* A persistence loop that logs a failed insert and goes on to the next event.
AfterInsertSwallow(ret, done) ==
    [cycleRet |-> <<>>, pc |-> "persist", persisted |-> done + 1]

\* store.insert_event(..)?; where run_one_cycle goes after an insert
AfterInsert(ret, done) ==
    IF ret.ok THEN [cycleRet |-> <<>>, pc |-> "persist", persisted |-> done + 1]
    ELSE [cycleRet |-> << ret >>, pc |-> "cycle_end", persisted |-> done]

\* for ev in &events { ..; store.insert_event(&ev.id, .., Some(result.score))?; }
\* The kind column receives ev.source, which every collector sets to the name
\* of the variant it emits.
\* insert_event takes the connection lock with `.lock().unwrap()` after the
\* payload is encrypted: on a poisoned lock the main thread panics.
PersistOne(nonce, sql_ok) ==
    /\ pc = "persist"
    /\ persisted < Len(cyc_events)
    /\ LET ev == cyc_events[persisted + 1]
       IN  IF encrypt(key, EventJson(ev), nonce).ok /\ LockResult("conn") = "poisoned"
           THEN /\ pc' = "panicked"
                /\ UNCHANGED <<storeVars, persisted, cycleRet>>
           ELSE /\ insert_event(ev.id, ev.ts, ev.kind.type, EventJson(ev),
                                << cyc_result[1].score >>, nonce, sql_ok)
                /\ LET next == AfterInsert(storeRet'.ret, persisted)
                   IN  /\ pc' = next.pc
                       /\ persisted' = next.persisted
                       /\ cycleRet' = next.cycleRet
    /\ UNCHANGED <<windowVars, STOP, lockVars, interval_secs, uplink, session, risk_config, device_registered,
                   cycle, collected, cyc_events, cyc_score, model_out, cyc_result, reportRet,
                   report_posts, sleep_i, stopAt,
                   sleepsAfterStop>>

\* A cancellable cycle: with the flag set it returns before the uplink.
PersistDoneUnlessStopped ==
    /\ pc = "persist"
    /\ persisted = Len(cyc_events)
    /\ pc' = IF STOP THEN "cycle_end" ELSE "uplink"
    /\ cycleRet' = IF STOP THEN << Ok(<<>>) >> ELSE cycleRet
    /\ UNCHANGED <<windowVars, storeVars, STOP, lockVars, interval_secs, uplink, session,
                   risk_config, device_registered, cycle, collected, cyc_events, cyc_score,
                   model_out,
                   cyc_result, persisted, reportRet, report_posts, sleep_i, stopAt,
                   sleepsAfterStop>>

\* the for loop over the events is finished
PersistDone ==
    /\ pc = "persist"
    /\ persisted = Len(cyc_events)
    /\ pc' = "uplink"
    /\ UNCHANGED <<windowVars, storeVars, STOP, lockVars, interval_secs, uplink, session, risk_config,
                   device_registered, cycle, cycleVars, sleep_i, stopAt, sleepsAfterStop>>

\* The places of the main thread inside `if let Some(u) = uplink { .. }`
UplinkPcs == {"uplink", "device_store", "report_events", "report_risk", "report_ret"}

\* if let Some(u) = uplink { .. } without an uplink; Ok(())
NoUplink ==
    /\ pc = "uplink"
    /\ ~uplink
    /\ cycleRet' = << Ok(<<>>) >>
    /\ pc' = "cycle_end"
    /\ UNCHANGED <<windowVars, storeVars, STOP, lockVars, interval_secs, uplink, session,
                   risk_config, device_registered, cycle, collected, cyc_events, cyc_score,
                   model_out,
                   cyc_result, persisted, reportRet, report_posts, sleep_i, stopAt,
                   sleepsAfterStop>>

\* u.report(..) is entered and calls self.ensure_device(platform): the flag is
\* loaded and, if it is unset, the devices POST is made and answered
EnsureDevicePost(ok) ==
    /\ pc = "uplink"
    /\ uplink
    /\ report_posts' = DevicePosts(device_registered, ok)
    /\ pc' = IF Registers(report_posts') THEN "device_store"
             ELSE EventsLoop(0, Len(cyc_events))
    /\ UNCHANGED <<windowVars, storeVars, STOP, lockVars, interval_secs, uplink, session,
                   risk_config, device_registered, cycle, collected, cyc_events, cyc_score,
                   model_out,
                   cyc_result, persisted, cycleRet, reportRet, sleep_i, stopAt,
                   sleepsAfterStop>>

\* self.device_registered.store(true, Relaxed), and ensure_device returns
EnsureDeviceStore ==
    /\ pc = "device_store"
    /\ device_registered' = TRUE
    /\ pc' = EventsLoop(0, Len(cyc_events))
    /\ UNCHANGED <<windowVars, storeVars, STOP, lockVars, interval_secs, uplink, session,
                   risk_config, cycle, cycleVars, sleep_i, stopAt, sleepsAfterStop>>

\* one iteration of `for ev in events`: the events POST of the next event
ReportEvent(ok) ==
    /\ pc = "report_events"
    /\ LET i == EventsPosted(report_posts) + 1
       IN  /\ report_posts' =
                 Append(report_posts, Post("/api/v1/events", cyc_events[i].id, ok))
           /\ pc' = AfterEventPost(ok, i, Len(cyc_events))
    /\ UNCHANGED <<windowVars, storeVars, STOP, lockVars, interval_secs, uplink, session,
                   risk_config, device_registered, cycle, collected, cyc_events, cyc_score,
                   model_out,
                   cyc_result, persisted, cycleRet, reportRet, sleep_i, stopAt,
                   sleepsAfterStop>>

\* self.post("/api/v1/risk_scores", &payload) is made and answered
ReportRisk(ok) ==
    /\ pc = "report_risk"
    /\ report_posts' = Append(report_posts, Post("/api/v1/risk_scores", EmptyId, ok))
    /\ pc' = "report_ret"
    /\ UNCHANGED <<windowVars, storeVars, STOP, lockVars, interval_secs, uplink, session,
                   risk_config, device_registered, cycle, collected, cyc_events, cyc_score,
                   model_out,
                   cyc_result, persisted, cycleRet, reportRet, sleep_i, stopAt,
                   sleepsAfterStop>>

\* report returns (`?` on the risk-scores POST, or Ok(())), and run_one_cycle
\* with it: let _ = u.report(..); Ok(())
ReportReturn ==
    /\ pc = "report_ret"
    /\ reportRet' = << [posts |-> report_posts, ret |-> ReportResult(report_posts)] >>
    /\ report_posts' = <<>>
    /\ cycleRet' = AfterReport(ReportResult(report_posts))
    /\ pc' = "cycle_end"
    /\ UNCHANGED <<windowVars, storeVars, STOP, lockVars, interval_secs, uplink, session,
                   risk_config, device_registered, cycle, collected, cyc_events, cyc_score,
                   model_out,
                   cyc_result, persisted, sleep_i, stopAt, sleepsAfterStop>>

\* The steps of report, the devices POST answering one of `devs`, an events
\* POST one of `evs` and the risk-scores POST one of `risks`
Report(devs, evs, risks) ==
    \/ \E ok \in devs : EnsureDevicePost(ok)
    \/ EnsureDeviceStore
    \/ \E ok \in evs : ReportEvent(ok)
    \/ \E ok \in risks : ReportRisk(ok)
    \/ ReportReturn

\* A daemon loop that propagates the error of a cycle, as single-shot mode does.
AfterCyclePropagate(daemon, ret) ==
    IF ret.ok THEN (IF daemon THEN "sleep_check" ELSE "exit_ok") ELSE "exit_err"

\* where main goes when run_one_cycle has returned `ret`:
\* daemon mode logs an error and sleeps; single-shot mode returns it (`?`)
AfterCycle(daemon, ret) ==
    IF daemon THEN "sleep_check" ELSE IF ret.ok THEN "exit_ok" ELSE "exit_err"

\* A cycle that undoes its push when it failed: the events of the batch are
\* taken out of the window before the loop goes on.
CycleEndRollback ==
    /\ pc = "cycle_end"
    /\ pc' = AfterCycle(run_daemon, cycleRet[1])
    /\ sleep_i' = IF run_daemon THEN AsU32(interval_secs) ELSE sleep_i
    /\ window' = IF cycleRet[1].ok THEN window
                 ELSE SelectSeq(window, LAMBDA e : e \notin Range(cyc_events))
    /\ UNCHANGED <<window_events, feature_dim, inserted, pushRet, flushRet, storeVars, STOP,
                   lockVars, interval_secs, uplink, session, risk_config,
                   device_registered, cycle, cycleVars, stopAt, sleepsAfterStop>>

CycleEnd ==
    /\ pc = "cycle_end"
    /\ pc' = AfterCycle(run_daemon, cycleRet[1])
    /\ sleep_i' = IF run_daemon THEN AsU32(interval_secs) ELSE sleep_i
    /\ UNCHANGED <<windowVars, storeVars, STOP, lockVars, interval_secs, uplink, session, risk_config,
                   device_registered, cycle, cycleVars, stopAt, sleepsAfterStop>>

\* A sleep loop that does not look at the flag.
AfterSleepCheckBlind(left, stop) == IF left = 0 THEN "loop_check" ELSE "sleeping"

\* for _ in 0..n { if STOP.load(..) { break; } sleep(1s) }: one iteration's start
AfterSleepCheck(left, stop) ==
    IF left = 0 \/ stop THEN "loop_check" ELSE "sleeping"

SleepCheck ==
    /\ pc = "sleep_check"
    /\ pc' = AfterSleepCheck(sleep_i, STOP)
    /\ UNCHANGED <<windowVars, storeVars, STOP, lockVars, interval_secs, uplink, session, risk_config,
                   device_registered, cycle, cycleVars, sleep_i, stopAt, sleepsAfterStop>>

\* std::thread::sleep(Duration::from_secs(1)) returns
SleepDone ==
    /\ pc = "sleeping"
    /\ sleep_i' = sleep_i - 1
    /\ pc' = "sleep_check"
    /\ sleepsAfterStop' = IF STOP THEN sleepsAfterStop + 1 ELSE sleepsAfterStop
    /\ UNCHANGED <<windowVars, storeVars, STOP, lockVars, interval_secs, uplink, session, risk_config,
                   device_registered, cycle, cycleVars, stopAt>>

\* the ctrlc handler (its own thread): STOP.store(true, Relaxed).  It is
\* installed in daemon mode only, after startup.
CtrlC ==
    /\ run_daemon
    /\ pc # "start" /\ ~Exited
    /\ ~STOP
    /\ STOP' = TRUE
    /\ stopAt' = pc
    /\ UNCHANGED <<windowVars, storeVars, pc, lockVars, interval_secs, uplink, session, risk_config,
                   device_registered, cycle, cycleVars, sleep_i, sleepsAfterStop>>

\* The events of a batch by collector, every snapshot() succeeding.
OfSource(batch, c) == SelectSeq(batch, LAMBDA e : e.kind.type = c)
AllOk(batch) ==
    [ c \in Range(Collectors) |-> Ok(OfSource(batch, c)) ]

\* The same with the collectors of `failing` returning an io::Error.
SomeFailing(batch, failing) ==
    [ c \in Range(Collectors) |-> IF c \in failing THEN Err("io") ELSE Ok(OfSource(batch, c)) ]

CollectOver(pool, max, failures) ==
    \E k \in 0..max :
        /\ Len(inserted) + k <= MaxRunEvents
        /\ \E batch \in Batches(Len(inserted) + 1, 10 * (cycle + 1), pool, k) :
              /\ collect_snapshot(AllOk(batch)) = batch
              /\ \E failing \in failures : Collect(SomeFailing(batch, failing))

\* What collect_snapshot hands out in SpecCycle and in SpecDaemon.
CycleKinds == { ProcessKind("sh", <<4>>), PrivilegeKind(FALSE) }
DaemonKinds == { ProcessKind("sh", <<4>>) }
CollectKinds ==
    { ProcessKind("sh", <<4>>), NetworkKind(600000000, 7),
      FileKind("/etc/passwd", 600000000), PrivilegeKind(FALSE) }
NoFailures == { {} }
ModelOutputs == { <<>>, <<600>>, <<NaN>> }
StartupOutcomes == {"ok", "mkdir_failed", "open_failed", "load_failed"}

\* What the network answers to a POST
Up == {TRUE}
UpOrDown == BOOLEAN

InitMain(intervals, uplinks, sessions, caps) ==
    /\ pc = "start"
    /\ STOP = FALSE
    /\ interval_secs \in intervals
    /\ uplink \in uplinks
    /\ session \in sessions
    /\ risk_config = DefaultRiskConfig
    /\ device_registered = FALSE
    /\ cycle = 0
    /\ collected = <<>>
    /\ cyc_events = <<>> /\ cyc_score = 0 /\ model_out = <<>> /\ cyc_result = <<>>
    /\ persisted = 0 /\ cycleRet = <<>> /\ reportRet = <<>> /\ report_posts = <<>>
    /\ LocksUnused
    /\ sleep_i = 0
    /\ stopAt = ""
    /\ sleepsAfterStop = 0
    /\ window_events \in caps
    /\ feature_dim = 3
    /\ window = <<>> /\ inserted = <<>> /\ pushRet = <<>> /\ flushRet = <<>>
    /\ key = [sha256 |-> 0]
    /\ events_table = {}
    /\ storeRet = NoRet
    /\ written = [ i \in 1..MaxRunEvents |-> <<>> ]
    /\ altered = {}

U64(hi, lo) == [hi |-> hi, lo |-> lo]

\* SpecCycle: run_one_cycle with every input, in single-shot mode and in a
\* daemon of interval 1 that is never interrupted.
InitCycle == InitMain({U64(0, 0), U64(0, 1)}, BOOLEAN, BOOLEAN, {2})

NextCycle ==
    \/ Startup("ok")
    \/ CycleStart
    \/ CollectOver(CycleKinds, MaxSnapshot, NoFailures)
    \/ PushBatch
    \/ \E out \in ModelOutputs : Predict(out)
    \/ Score
    \/ \E sql_ok \in BOOLEAN : PersistOne(0, sql_ok)
    \/ PersistDone
    \/ NoUplink
    \/ Report(UpOrDown, UpOrDown, UpOrDown)
    \/ CycleEnd
    \/ SleepCheck
    \/ SleepDone

SpecCycle == InitCycle /\ [][NextCycle]_vars

\* SpecCollect: one single-shot cycle over every batch the four collectors
\* can hand out and every subset of them failing.
InitCollect == InitMain({U64(0, 0)}, {FALSE}, {FALSE}, {2})

NextCollect ==
    \/ Startup("ok")
    \/ CollectOver(CollectKinds, MaxRunEvents, SUBSET Range(Collectors))
    \/ PushBatch
    \/ Predict(<<>>)
    \/ Score
    \/ \E sql_ok \in BOOLEAN : PersistOne(0, sql_ok)
    \/ PersistDone
    \/ NoUplink
    \/ CycleEnd

SpecCollect == InitCollect /\ [][NextCollect]_vars

\* SpecPartial: a daemon of interval 1 with an uplink, whose inserts may fail
\* and whose events POSTs may fail one by one, on windows smaller than, equal
\* to and larger than a batch.
InitPartial == InitMain({U64(0, 1)}, {TRUE}, {FALSE}, 0..MaxCap)

NextPartial ==
    \/ Startup("ok")
    \/ CycleStart
    \/ CollectOver(DaemonKinds, MaxSnapshot, NoFailures)
    \/ PushBatch
    \/ Predict(<<>>)
    \/ Score
    \/ \E sql_ok \in BOOLEAN : PersistOne(0, sql_ok)
    \/ PersistDone
    \/ Report(Up, UpOrDown, Up)
    \/ CycleEnd
    \/ SleepCheck
    \/ SleepDone

SpecPartial == InitPartial /\ [][NextPartial]_vars

\* SpecReport: cycles of a process with an uplink and no model session, every
\* outcome of the network; its only thread keeps running.
InitReport == InitMain({U64(0, 0), U64(0, 1)}, {TRUE}, {FALSE}, {2})

NextReport ==
    \/ Startup("ok")
    \/ CycleStart
    \/ CollectOver(DaemonKinds, MaxSnapshot, NoFailures)
    \/ PushBatch
    \/ Predict(<<>>)
    \/ Score
    \/ \E sql_ok \in BOOLEAN : PersistOne(0, sql_ok)
    \/ PersistDone
    \/ Report(UpOrDown, UpOrDown, UpOrDown)
    \/ CycleEnd
    \/ SleepCheck
    \/ SleepDone

SpecReport == InitReport /\ [][NextReport]_vars
SpecReportFair == SpecReport /\ WF_vars(NextReport)

\* SpecDaemon: the loop of main with Ctrl-C at any moment, intervals 0, 1, 2,
\* 2^32 and 2^32 + 1, and every outcome of startup; cycles of at most one event.
IntervalPool == { U64(0, 0), U64(0, 1), U64(0, 2), U64(1, 0), U64(1, 1) }

InitDaemon == InitMain(IntervalPool, BOOLEAN, {FALSE}, {1})

MainThread ==
    \/ \E outcome \in StartupOutcomes : Startup(outcome)
    \/ LoopExit
    \/ CycleStart
    \/ CollectOver(DaemonKinds, 1, NoFailures)
    \/ PushBatch
    \/ Predict(<<>>)
    \/ Score
    \/ \E sql_ok \in BOOLEAN : PersistOne(0, sql_ok)
    \/ PersistDone
    \/ NoUplink
    \/ Report(Up, Up, Up)
    \/ CycleEnd
    \/ SleepCheck
    \/ SleepDone

NextDaemon == MainThread \/ CtrlC

SpecDaemon == InitDaemon /\ [][NextDaemon]_vars

\* The main thread keeps running while it has a step to take.
SpecDaemonFair == SpecDaemon /\ WF_vars(MainThread)

\* SpecCancel: a daemon of interval 1 with an uplink and Ctrl-C at any moment,
\* between two inserts and between two POSTs of a report included; cycles of
\* up to two events, inserts and events POSTs that may fail one by one.
InitCancel == InitMain({U64(0, 1)}, {TRUE}, {FALSE}, {2})

CancelMainThread ==
    \/ Startup("ok")
    \/ LoopExit
    \/ CycleStart
    \/ CollectOver(DaemonKinds, 2, NoFailures)
    \/ PushBatch
    \/ Predict(<<>>)
    \/ Score
    \/ \E sql_ok \in BOOLEAN : PersistOne(0, sql_ok)
    \/ PersistDone
    \/ Report(Up, UpOrDown, Up)
    \/ CycleEnd
    \/ SleepCheck
    \/ SleepDone

NextCancel == CancelMainThread \/ CtrlC

SpecCancel == InitCancel /\ [][NextCancel]_vars
SpecCancelFair == SpecCancel /\ WF_vars(CancelMainThread)


(***************************************************************************)
(* SpecRisk: RiskEngine::score on one engine, for every pair of thresholds *)
(* of ThresholdPool (in either order) and every raw score of RawScores.    *)
(***************************************************************************)
ThresholdPool == {0, 500, 800, 1000, NaN}
RawScores == {-500, 0, 499, 500, 790, 799, 800, 1000, 1500, NaN}

InitRisk ==
    /\ risk_config \in { RiskConfig(h, m) : h \in ThresholdPool, m \in ThresholdPool }
    /\ pc = "unused"
    /\ STOP = FALSE
    /\ interval_secs = [hi |-> 0, lo |-> 0]
    /\ uplink = FALSE
    /\ session = FALSE
    /\ device_registered = FALSE
    /\ cycle = 0
    /\ collected = <<>>
    /\ cyc_events = <<>> /\ cyc_score = 0 /\ model_out = <<>> /\ cyc_result = <<>>
    /\ persisted = 0 /\ cycleRet = <<>> /\ reportRet = <<>> /\ report_posts = <<>>
    /\ LocksUnused
    /\ sleep_i = 0
    /\ stopAt = ""
    /\ sleepsAfterStop = 0
    /\ WindowUnused
    /\ StoreUnused

\* risk_engine.score(event_id, raw_score, ts) called on its own
ScoreOne(event_id, raw_score) ==
    /\ cyc_score' = raw_score
    /\ cyc_result' = << RiskEngine_score(event_id, raw_score) >>
    /\ UNCHANGED <<windowVars, storeVars, pc, STOP, lockVars, interval_secs, uplink, session,
                   risk_config, device_registered, cycle, collected, cyc_events, model_out,
                   persisted, cycleRet, reportRet, report_posts, sleep_i, stopAt,
                   sleepsAfterStop>>

NextRisk == \E raw_score \in RawScores : ScoreOne(EmptyId, raw_score)

SpecRisk == InitRisk /\ [][NextRisk]_vars

(***************************************************************************)
(* Claims about run_one_cycle and the daemon loop                          *)
(***************************************************************************)
CycleSucceeded == pc = "cycle_end" /\ cycleRet[1].ok

\* What get_event returns for an event of the cycle stored with `score`.
StoredAs(ev, score) ==
    Ok(<< [payload |-> EventJson(ev), score |-> score, ts |-> ev.ts] >>)

\* C7 as stated: when a cycle completes without a storage error, every event
\* of the snapshot is stored under its own id, and each carries the score of
\* the cycle's single RiskResult.
C7_EveryEventCarriesCycleScore ==
    CycleSucceeded =>
        \A i \in 1..Len(cyc_events) :
            /\ Cardinality(RowsWithId(events_table, cyc_events[i].id)) = 1
            /\ GetEventResult(events_table, key, cyc_events[i].id)
                 = StoredAs(cyc_events[i], << cyc_result[1].score >>)

\* What the code does for C7: the same with a NaN cycle score stored as absent.
C7_EveryEventStored ==
    CycleSucceeded =>
        \A i \in 1..Len(cyc_events) :
            /\ Cardinality(RowsWithId(events_table, cyc_events[i].id)) = 1
            /\ GetEventResult(events_table, key, cyc_events[i].id)
                 = StoredAs(cyc_events[i], BindReal(<< cyc_result[1].score >>))

AllPersisted ==
    \A i \in 1..Len(cyc_events) : RowsWithId(events_table, cyc_events[i].id) # {}

C8_Step ==
    /\ events_table' # events_table =>
          /\ cyc_result # <<>>
          /\ cyc_result[1].score = cyc_score
          /\ cyc_result' = cyc_result
    /\ ((reportRet' # reportRet /\ reportRet' # <<>>) \/ report_posts' # report_posts) =>
          /\ persisted = Len(cyc_events)
          /\ AllPersisted
          /\ events_table' = events_table
    /\ (pc = "persist" /\ persisted < Len(cyc_events) /\ pc' # pc) =>
          /\ ~storeRet'.ret.ok
          /\ pc' = "cycle_end"
          /\ ~cycleRet'[1].ok
          /\ reportRet' = <<>>
          /\ report_posts' = <<>>

\* C8: within a cycle no event is persisted before the cycle's risk result is
\* computed, the uplink report makes its POSTs and returns only when every
\* event of the cycle has been persisted, and a failed insert ends the cycle
\* without a report and without a POST.
C8_CycleOrder == [][C8_Step]_vars

\* C8 witness: a cycle of two events scored 0.6 has persisted both and then
\* reported them to the uplink.
C8_Witness ==
    /\ pc = "cycle_end"
    /\ uplink
    /\ reportRet # <<>>
    /\ Len(cyc_events) = 2
    /\ cyc_score = 600
    /\ AllPersisted

FailedCycle == run_daemon /\ pc = "cycle_end" /\ ~cycleRet[1].ok

C9_Step ==
    /\ FailedCycle => (pc' = "sleep_check" \/ pc' = pc)
    /\ (FailedCycle /\ pc' = "sleep_check") => sleep_i' = AsU32(interval_secs)
    /\ (run_daemon /\ pc' = "exit_err") => (pc = "start" \/ pc = "exit_err")
    /\ (run_daemon /\ cycle >= 1 /\ cycle' = cycle + 1) => (~STOP /\ sleep_i = 0)

\* C9: in daemon mode a cycle that returned an error does not end the loop:
\* control goes to the sleep loop, every sleep increment elapses before a next
\* cycle, and unless the flag is set the next cycle starts.
C9_FailedCycleContinues ==
    /\ [][C9_Step]_vars
    /\ \A c \in 1..(MaxCycles - 1) :
          (FailedCycle /\ cycle = c) ~> (STOP \/ (cycle = c + 1 /\ pc = "collect"))

\* C9 witness: the first cycle failed on an insert, and after a sleep of two
\* increments the second cycle is running.
C9_Witness ==
    /\ run_daemon
    /\ AsU32(interval_secs) = 2
    /\ cycle = 2
    /\ pc = "collect"
    /\ storeRet.op = "insert" /\ ~storeRet.ret.ok
    /\ ~STOP

\* C10: a sleep increment and a cycle begin only when the flag was found
\* unset; once the flag is set, at most one further sleep increment elapses,
\* no further cycle is started, and the loop terminates.
C10_CooperativeStop ==
    /\ [](STOP => sleepsAfterStop <= 1)
    /\ [][(pc # "sleeping" /\ pc' = "sleeping") => ~STOP]_vars
    /\ [][STOP => cycle' = cycle]_vars
    /\ [][(STOP /\ pc = "loop_check") => (pc' = "exit_ok" \/ pc' = pc)]_vars
    /\ (STOP ~> pc = "exit_ok")

\* C10 witness: the flag was set during a sleep increment of a two-second
\* interval; that increment elapsed, the second did not, and the loop ended.
C10_Witness ==
    /\ STOP
    /\ stopAt = "sleeping"
    /\ AsU32(interval_secs) = 2
    /\ sleep_i = 1
    /\ sleepsAfterStop = 1
    /\ pc = "exit_ok"

InCycle == pc \in {"collect", "push", "predict", "score", "persist"} \cup UplinkPcs

\* The POSTs of a whole report of `batch`: the devices POST or none, one
\* events POST per event in order, the risk-scores POST.
WholeReport(posts, batch) ==
    LET d == IF posts[1].path = "/api/v1/devices" THEN 1 ELSE 0
    IN  /\ Len(posts) = d + Len(batch) + 1
        /\ \A i \in 1..Len(batch) :
              /\ posts[d + i].path = "/api/v1/events"
              /\ posts[d + i].id = batch[i].id
        /\ posts[Len(posts)].path = "/api/v1/risk_scores"

\* What a cycle that has returned has done.
CycleRanToCompletion ==
    pc = "cycle_end" =>
        IF cycleRet[1].ok
        THEN /\ cyc_result # <<>>
             /\ persisted = Len(cyc_events)
             /\ AllPersisted
             /\ uplink => (reportRet # <<>> /\ WholeReport(reportRet[1].posts, cyc_events))
        ELSE /\ storeRet.op = "insert"
             /\ ~storeRet.ret.ok

C11_Step ==
    /\ (InCycle /\ pc' # pc) => (InCycle' \/ pc' = "cycle_end")
    /\ (run_daemon /\ pc # "start" /\ ~Exited /\ Exited') =>
          (pc = "loop_check" /\ STOP /\ pc' = "exit_ok")

\* C11: a cycle that is running when the flag is set, between two inserts or
\* between two POSTs of the report included, still takes every one of its
\* remaining steps (score, persistence of every event, every POST of the
\* uplink report) and returns; the loop exits only at its next check of the
\* flag.
C11_NoMidCycleCancel ==
    /\ []CycleRanToCompletion
    /\ [][C11_Step]_vars
    /\ \A c \in 1..MaxCycles :
          (STOP /\ InCycle /\ cycle = c) ~> (pc = "cycle_end" /\ cycle = c)

\* C11 witness: the flag was set inside report, after the devices POST had
\* succeeded and the registered flag was stored and before the events POSTs
\* of the two events were all made; the report has made them and the
\* risk-scores POST all the same, and the cycle has returned.
C11_Witness ==
    /\ run_daemon
    /\ STOP
    /\ stopAt = "report_events"
    /\ pc = "cycle_end"
    /\ cycleRet[1].ok
    /\ Len(cyc_events) = 2
    /\ AllPersisted
    /\ uplink
    /\ reportRet # <<>>
    /\ reportRet[1].posts[1].path = "/api/v1/devices"
    /\ reportRet[1].posts[1].ok
    /\ device_registered
    /\ WholeReport(reportRet[1].posts, cyc_events)

\* C12 as stated: in single-shot mode one cycle runs and the process returns,
\* and the only error it returns is one of startup, never one of the cycle.
C12_SingleShotOnlyStartupErrors ==
    ~run_daemon =>
        /\ pc = "exit_ok" => (cycleRet # <<>> /\ cycle = 0)
        /\ pc = "exit_err" => cycleRet = <<>>

\* C13 as stated: in every cycle whose snapshot is empty, push returns no
\* vector, the result has score 0.0 and an empty event_id, and the cycle
\* completes without error.
C13_EmptySnapshotScoresZero ==
    (cyc_events = <<>> /\ pc \in {"persist", "cycle_end"} \cup UplinkPcs) =>
        /\ pushRet = <<>>
        /\ cyc_result[1].score = 0
        /\ cyc_result[1].event_id = EmptyId
        /\ pc = "cycle_end" => cycleRet[1].ok

\* C13 amended: in every cycle whose snapshot is empty the cycle completes
\* without error; if the window holds no event of an earlier cycle, push
\* returns no vector and the result has score 0.0 and an empty event_id;
\* otherwise push returns one vector over the retained events, the model is
\* asked for its score, and the result carries that score and the id of the
\* last retained event.
C13_EmptySnapshot ==
    (cyc_events = <<>> /\ pc \in {"persist", "cycle_end"} \cup UplinkPcs) =>
        /\ pc = "cycle_end" => cycleRet[1].ok
        /\ IF window = <<>>
           THEN /\ pushRet = <<>>
                /\ model_out = <<>>
                /\ cyc_result[1].score = 0
                /\ cyc_result[1].event_id = EmptyId
           ELSE /\ pushRet = << VectorOf(window, feature_dim) >>
                /\ model_out # <<>>
                /\ cyc_score = predict(session, model_out[1])
                /\ cyc_result[1].score = cyc_score
                /\ cyc_result[1].event_id = window[Len(window)].id

\* C13 witness: with a model loaded, the second cycle of a run collected
\* nothing while the window still held the two events of the first cycle;
\* push returned the vector over them, the model gave 0.6 for it, and the
\* cycle completed with score 0.6 and the id of the last retained event.
C13_Witness ==
    /\ session
    /\ cycle = 2
    /\ cyc_events = <<>>
    /\ Len(window) = 2
    /\ pushRet = << VectorOf(window, feature_dim) >>
    /\ model_out = << <<600>> >>
    /\ pc = "cycle_end"
    /\ cycleRet[1].ok
    /\ cyc_result[1].score = 600
    /\ cyc_result[1].event_id = window[2].id

(***************************************************************************)
(* Claims about the risk engine                                            *)
(***************************************************************************)
\* a < b on f32: false when either side is NaN
FLt(a, b) == a # NaN /\ b # NaN /\ a < b

\* Thresholds are numbers (config.rs documents them as 0.0-1.0).
NumericThresholds ==
    risk_config.high_threshold # NaN /\ risk_config.medium_threshold # NaN

\* C19: the level is High iff raw_score >= high_threshold, Medium iff
\* raw_score < high_threshold and raw_score >= medium_threshold, and Low
\* otherwise.
C19_InclusiveThresholds ==
    (cyc_result # <<>> /\ NumericThresholds) =>
        LET r == cyc_result[1]
            h == risk_config.high_threshold
            m == risk_config.medium_threshold
            isHigh == r.score # NaN /\ r.score >= h
            isMedium == r.score # NaN /\ r.score < h /\ r.score >= m
        IN  /\ r.level = "High" <=> isHigh
            /\ r.level = "Medium" <=> isMedium
            /\ r.level = "Low" <=> (~isHigh /\ ~isMedium)
            /\ r.level \in {"Low", "Medium", "High"}

\* C19 witness: with the default thresholds 0.8 and 0.5, the score 0.80 is High.
C19_Witness ==
    /\ risk_config = DefaultRiskConfig
    /\ cyc_result # <<>>
    /\ cyc_result[1].score = 800
    /\ cyc_result[1].level = "High"

Rank(level) == CASE level = "Low" -> 0 [] level = "Medium" -> 1 [] level = "High" -> 2

C20_Step ==
    (cyc_result # <<>> /\ cyc_result' # <<>> /\ FLt(cyc_score, cyc_score')) =>
        Rank(cyc_result[1].level) <= Rank(cyc_result'[1].level)

\* C20: on one engine (one pair of thresholds, in either order), a score
\* scored after a smaller one never has a lower level.
C20_Monotone == [][C20_Step]_vars

\* C20 witness: with the thresholds in reverse order (high 0.5, medium 0.8) the
\* score 1.0 was scored High.
C20_Witness ==
    /\ risk_config = RiskConfig(500, 800)
    /\ cyc_result # <<>>
    /\ cyc_result[1].score = 1000
    /\ cyc_result[1].level = "High"

(***************************************************************************)
(* Claims about startup and the uplink                                     *)
(***************************************************************************)
StoreOpenFailed ==
    \/ storeRet.op = "open" /\ ~storeRet.ret.ok
    \/ pc # "start" /\ storeRet.op = "none"

\* C22: when creating the data directory or opening the store fails, the
\* process ends with an error before the loop: no cycle runs, nothing is
\* collected or stored, and no uplink call is made.
C22_OpenFailureFatal ==
    StoreOpenFailed =>
        /\ pc = "exit_err"
        /\ cycle = 0
        /\ cycleRet = <<>>
        /\ cyc_events = <<>>
        /\ inserted = <<>>
        /\ events_table = {}
        /\ reportRet = <<>>
        /\ ~device_registered

\* C22 witness: with an uplink configured, SecureStore::open failed and the
\* process has ended with an error.
C22_Witness ==
    /\ uplink
    /\ storeRet.op = "open"
    /\ ~storeRet.ret.ok
    /\ pc = "exit_err"
ReportFailed == pc = "cycle_end" /\ reportRet # <<>> /\ ~reportRet[1].ret.ok

C21_Step ==
    /\ pc \in UplinkPcs => events_table' = events_table
    /\ ReportFailed =>
          /\ events_table' = events_table
          /\ pc' \in {pc, IF run_daemon THEN "sleep_check" ELSE "exit_ok"}

\* C21: when the uplink is configured and report returns an error, the cycle
\* still returns success, the events it stored stay stored, the process does
\* not end with an error, and in daemon mode the next cycle starts.
C21_FailedReportNotFatal ==
    /\ [](ReportFailed => (uplink /\ cycleRet[1].ok /\ AllPersisted))
    /\ [][C21_Step]_vars
    /\ [](pc = "exit_err" => reportRet = <<>>)
    /\ \A c \in 1..(MaxCycles - 1) :
          (ReportFailed /\ run_daemon /\ cycle = c) ~> (cycle = c + 1 /\ pc = "collect")

\* C21 witness: a daemon cycle stored two events and its report then failed
\* on the risk-scores POST.
C21_Witness ==
    /\ ReportFailed
    /\ run_daemon
    /\ Len(cyc_events) = 2
    /\ Cardinality(events_table) = 2
IsDevicesPost(p) == p.path = "/api/v1/devices"

NewReport == reportRet' # <<>> /\ reportRet' # reportRet

\* report is entered: the step of ensure_device up to the answer to its POST
ReportEntered == pc = "uplink" /\ uplink /\ pc' # pc

C28_Step ==
    /\ device_registered => device_registered'
    /\ (ReportEntered /\ device_registered) => report_posts' = <<>>
    /\ (ReportEntered /\ Registers(report_posts')) => pc' = "device_store"
    /\ (pc = "device_store" /\ pc' # pc) => device_registered'
    /\ (~device_registered /\ device_registered') =>
          /\ pc = "device_store"
          /\ report_posts # <<>>
          /\ IsDevicesPost(report_posts[1]) /\ report_posts[1].ok
    /\ NewReport =>
          LET posts == reportRet'[1].posts
          IN  /\ posts = report_posts
              /\ \A i \in 1..Len(posts) : IsDevicesPost(posts[i]) => i = 1
              /\ (IsDevicesPost(posts[1]) /\ posts[1].ok) => device_registered
    /\ (report_posts' # report_posts /\ ~ReportEntered /\ ~NewReport) =>
          /\ Len(report_posts') = Len(report_posts) + 1
          /\ SubSeq(report_posts', 1, Len(report_posts)) = report_posts
          /\ ~IsDevicesPost(report_posts'[Len(report_posts')])

\* C28: in every report the devices POST, if there is one, is the first POST;
\* the device counts as registered exactly from the first successful devices
\* POST on (the flag is stored right after that POST, before the events
\* POSTs), and no report made after that sends a devices POST.
C28_RegisterOnceFirst == [][C28_Step]_vars

\* C28 witness: the second report of a process whose first report registered
\* the device: it has events POSTs and no devices POST.
C28_Witness ==
    /\ cycle = 2
    /\ pc = "cycle_end"
    /\ reportRet # <<>>
    /\ Len(reportRet[1].posts) = 3
    /\ ~IsDevicesPost(reportRet[1].posts[1])

\* C29: each report attempts, after the optional devices POST, exactly one
\* events POST per event of the batch in batch order, whether or not earlier
\* ones failed, then exactly one risk-scores POST; report returns an error
\* exactly when the risk-scores POST fails.
C29_ReportPosts ==
    reportRet # <<>> =>
        LET posts == reportRet[1].posts
            d     == IF IsDevicesPost(posts[1]) THEN 1 ELSE 0
            n     == Len(cyc_events)
        IN  /\ Len(posts) = d + n + 1
            /\ \A i \in 1..n :
                  /\ posts[d + i].path = "/api/v1/events"
                  /\ posts[d + i].id = cyc_events[i].id
            /\ posts[d + n + 1].path = "/api/v1/risk_scores"
            /\ reportRet[1].ret.ok <=> posts[d + n + 1].ok

\* C29 witness: a report of two events whose first events POST failed and
\* whose second events POST, made all the same, succeeded, as did the
\* risk-scores POST, so that report returned Ok.
C29_Witness ==
    /\ reportRet # <<>>
    /\ Len(cyc_events) = 2
    /\ \E i \in 1..Len(reportRet[1].posts) :
          /\ reportRet[1].posts[i].path = "/api/v1/events"
          /\ ~reportRet[1].posts[i].ok
          /\ reportRet[1].posts[i + 1].path = "/api/v1/events"
          /\ reportRet[1].posts[i + 1].ok
    /\ reportRet[1].ret.ok

\* A read, through a handle opened later with the same secret, of a record
\* that an earlier handle inserted.
ReadThroughLaterHandle ==
    /\ GetOfStored
    /\ written[storeRet.id][1].reopened
    /\ written[storeRet.id][1].key = key

\* C30 as stated: a record inserted through one handle is returned unchanged
\* by get_event through a later handle opened on the same path with the same
\* secret, for every score.
C30_ReopenEveryScore ==
    ReadThroughLaterHandle => storeRet.ret = Ok(<< Given(storeRet.id) >>)

\* What the code does for C30: open keeps the rows, and the later handle
\* returns the record inserted, a NaN score coming back absent.
C30_ReopenKeeps ==
    /\ [](ReadThroughLaterHandle
            => storeRet.ret = Ok(<< GivenNaNAbsent(storeRet.id) >>))
    /\ [][storeRet'.op = "open" => events_table' = events_table]_vars

\* C30 witness: a record with a payload and score 0.5, inserted before the
\* store was reopened with the same secret, was read back.
C30_Witness ==
    /\ ReadThroughLaterHandle
    /\ Given(storeRet.id).payload # <<>>
    /\ Given(storeRet.id).score = <<500>>
    /\ storeRet.ret.ok
(***************************************************************************)
(* Claims about the collectors                                             *)
(***************************************************************************)
Succeeded == { c \in Range(Collectors) : collected[c].ok }

CollectorRank(c) == CHOOSE i \in 1..Len(Collectors) : Collectors[i] = c

\* C23: collect_snapshot never fails: for every subset of failing collectors
\* the batch holds exactly the events of the collectors that succeeded, in
\* the order process, network, file, privilege and in each collector's own
\* order, and the cycle goes on to push and persist that batch.
C23_CollectorsIsolated ==
    /\ [](collected # <<>> =>
            /\ \A c \in Succeeded : OfSource(cyc_events, c) = collected[c].val
            /\ \A i \in 1..Len(cyc_events) : cyc_events[i].kind.type \in Succeeded
            /\ \A i, j \in 1..Len(cyc_events) :
                  i < j => CollectorRank(cyc_events[i].kind.type)
                             <= CollectorRank(cyc_events[j].kind.type))
    /\ [][pc = "collect" => pc' \in {"collect", "push"}]_vars
    /\ []((collected # <<>> /\ pc = "predict") =>
            (Len(inserted) >= Len(cyc_events)
               /\ SubSeq(inserted, Len(inserted) - Len(cyc_events) + 1, Len(inserted))
                    = cyc_events))
    /\ []((collected # <<>> /\ CycleSucceeded) => AllPersisted)

\* C23 witness: the network collector failed between the process collector
\* and the privilege collector, and the cycle stored the events of both.
C23_Witness ==
    /\ collected # <<>>
    /\ CycleSucceeded
    /\ ~collected["network"].ok
    /\ collected["process"].ok /\ collected["privilege"].ok
    /\ Len(cyc_events) = 2
    /\ cyc_events[1].kind.type = "process"
    /\ cyc_events[2].kind.type = "privilege"
    /\ Cardinality(events_table) = 2
(***************************************************************************)
(* Threads sharing one FeatureExtractor and one SecureStore                *)
(* (features/pipeline.rs push, flush; storage/encrypted.rs insert_event,   *)
(* get_event, prune_before).  Both types hold their state in a Mutex and   *)
(* take &self, so any number of threads may call them at once.  A thread   *)
(* makes the calls of its script one after the other; a call is a sequence *)
(* of steps, and the steps of different threads interleave freely.         *)
(***************************************************************************)
Threads == {1, 2}

CallRec(op, events, id, ts, payload, score) ==
    [events |-> events, id |-> id, op |-> op, payload |-> payload, score |-> score,
     ts |-> ts]

PushCall(events) == CallRec("push", events, 0, 0, <<>>, <<>>)
FlushCall == CallRec("flush", <<>>, 0, 0, <<>>, <<>>)
InsertCall(id, ts, payload, score) == CallRec("insert", <<>>, id, ts, payload, score)
GetCall(id) == CallRec("get", <<>>, id, 0, <<>>, <<>>)
PruneCall(ts) == CallRec("prune", <<>>, 0, ts, <<>>, <<>>)

\* A thread between two calls
Idle(at) ==
    [at |-> at, enc |-> <<>>, i |-> 0, pc |-> "idle", ret |-> <<>>, snapshot |-> <<>>]

\* The call thread t is making, or is about to make
Cur(t) == script[t][thread[t].at]

\* Thread t is about to start a call of `op`
Calls(t, op) ==
    /\ thread[t].pc = "idle"
    /\ thread[t].at <= Len(script[t])
    /\ Cur(t).op = op

\* A mutex that excludes nobody.
CanLockAlways(l) == TRUE

\* Mutex::lock() returns only when no thread holds the lock
CanLock(l) == locks[l] = NoThread

\* A guard that is never dropped: the lock stays with the thread that took it.
ReleasedNever(l) == locks

\* drop(w) in push and flush; in the store the guard is a temporary (insert,
\* prune) or a local (get) dropped when the statement or the function ends
Released(l) == [locks EXCEPT ![l] = NoThread]

\* self.window.lock().expect("lock") / self.conn.lock().unwrap() by thread t,
\* which goes on at `next`
Lock(t, l, next) ==
    /\ CanLock(l)
    /\ IF LockResult(l) = "poisoned"
       THEN /\ thread' = [thread EXCEPT ![t].pc = "panicked"]
            /\ UNCHANGED locks
       ELSE /\ thread' = [thread EXCEPT ![t].pc = next]
            /\ locks' = [locks EXCEPT ![l] = t]

\* The call of thread t returns `ret`; `snapshot` is what it saw under the
\* lock: the window for push and flush, the inserts written so far for get.
Return(t, ret, snapshot) ==
    /\ thread' = [thread EXCEPT ![t] = Idle(thread[t].at + 1)]
    /\ returned' = Append(returned,
                          [call |-> Cur(t), ret |-> ret, snapshot |-> snapshot, t |-> t])

\* ---- push (pipeline.rs 24-49)
\* let mut w = self.window.lock().expect("lock");
PushLock(t) ==
    /\ Calls(t, "push")
    /\ Lock(t, "window", "push_loop")
    /\ UNCHANGED <<windowVars, storeVars, mainVars, script, poisoned, returned>>

\* for e in events { w.push_back(e); while w.len() > self.window_events { w.pop_front(); } }
\* one iteration
PushOne(t) ==
    /\ thread[t].pc = "push_loop"
    /\ thread[t].i < Len(Cur(t).events)
    /\ LET e == Cur(t).events[thread[t].i + 1]
       IN  /\ window' = PushBackAll(window, <<e>>, window_events)
           /\ inserted' = Append(inserted, e)
    /\ thread' = [thread EXCEPT ![t].i = @ + 1]
    /\ UNCHANGED <<window_events, feature_dim, pushRet, flushRet, storeVars, mainVars,
                   script, locks, poisoned, returned>>

\* let snapshot: Vec<Event> = w.iter().cloned().collect(); drop(w);
PushSnapshot(t) ==
    /\ thread[t].pc = "push_loop"
    /\ thread[t].i = Len(Cur(t).events)
    /\ thread' = [thread EXCEPT ![t].pc = "push_ret", ![t].snapshot = window]
    /\ locks' = Released("window")
    /\ UNCHANGED <<windowVars, storeVars, mainVars, script, poisoned, returned>>

\* the statistics and the vector are computed from the snapshot, lock dropped
PushReturn(t) ==
    /\ thread[t].pc = "push_ret"
    /\ Return(t, PushResult(thread[t].snapshot, feature_dim), thread[t].snapshot)
    /\ UNCHANGED <<windowVars, storeVars, mainVars, script, locks, poisoned>>

\* ---- flush (pipeline.rs 52-68)
FlushLock(t) ==
    /\ Calls(t, "flush")
    /\ Lock(t, "window", "flush_locked")
    /\ UNCHANGED <<windowVars, storeVars, mainVars, script, poisoned, returned>>

\* let snapshot: Vec<Event> = w.iter().cloned().collect(); ..; drop(w);
FlushSnapshot(t) ==
    /\ thread[t].pc = "flush_locked"
    /\ thread' = [thread EXCEPT ![t].pc = "flush_ret", ![t].snapshot = window]
    /\ locks' = Released("window")
    /\ UNCHANGED <<windowVars, storeVars, mainVars, script, poisoned, returned>>

FlushReturn(t) ==
    /\ thread[t].pc = "flush_ret"
    /\ Return(t, FlushResult(thread[t].snapshot, feature_dim), thread[t].snapshot)
    /\ UNCHANGED <<windowVars, storeVars, mainVars, script, locks, poisoned>>

\* ---- insert_event (encrypted.rs 75-89)
\* let enc = encrypt(&self.key, payload_json.as_bytes())?;  before the lock
InsertEncrypt(t, nonce) ==
    /\ Calls(t, "insert")
    /\ LET enc == encrypt(key, Cur(t).payload, nonce)
       IN  IF enc.ok
           THEN /\ thread' = [thread EXCEPT ![t].pc = "insert_lock", ![t].enc = << enc.val >>]
                /\ UNCHANGED returned
           ELSE Return(t, enc, <<>>)
    /\ UNCHANGED <<windowVars, storeVars, mainVars, script, locks, poisoned>>

\* self.conn.lock().unwrap()
InsertLock(t) ==
    /\ thread[t].pc = "insert_lock"
    /\ Lock(t, "conn", "insert_exec")
    /\ UNCHANGED <<windowVars, storeVars, mainVars, script, poisoned, returned>>

\* .execute("INSERT OR REPLACE ..") under the temporary guard: the statement
\* fails as a whole, or it first deletes the row in conflict on the primary key
InsertDelete(t, sql_ok) ==
    /\ thread[t].pc = "insert_exec"
    /\ IF sql_ok
       THEN /\ events_table' = events_table \ RowsWithId(events_table, Cur(t).id)
            /\ thread' = [thread EXCEPT ![t].pc = "insert_put"]
       ELSE /\ thread' = [thread EXCEPT ![t].pc = "conn_release",
                                        ![t].ret = << Err("sql") >>]
            /\ UNCHANGED events_table
    /\ UNCHANGED <<windowVars, key, storeRet, written, altered, mainVars, script, locks,
                   poisoned, returned>>

\* then writes the new row: execute returns Ok, the guard still alive
InsertPut(t) ==
    /\ thread[t].pc = "insert_put"
    /\ events_table' = events_table \cup
           { Row(Cur(t).id, Cur(t).ts, "process", thread[t].enc[1], BindReal(Cur(t).score)) }
    /\ written' = Append(written, Cur(t))
    /\ thread' = [thread EXCEPT ![t].pc = "conn_release", ![t].ret = << Ok(<<>>) >>]
    /\ UNCHANGED <<windowVars, key, storeRet, altered, mainVars, script, locks, poisoned,
                   returned>>

\* ---- get_event (encrypted.rs 92-105)
\* let conn = self.conn.lock().unwrap();
GetLock(t) ==
    /\ Calls(t, "get")
    /\ Lock(t, "conn", "get_locked")
    /\ UNCHANGED <<windowVars, storeVars, mainVars, script, poisoned, returned>>

\* the query and the decryption, both with the guard `conn` alive.
\* `sql_ok` is whether prepare, query and next succeeded.
GetRun(t, sql_ok) ==
    /\ thread[t].pc = "get_locked"
    /\ thread' = [thread EXCEPT
                    ![t].pc = "conn_release",
                    ![t].ret = << IF sql_ok
                                  THEN GetEventResult(events_table, key, Cur(t).id)
                                  ELSE Err("sql") >>,
                    ![t].snapshot = written]
    /\ UNCHANGED <<windowVars, storeVars, mainVars, script, locks, poisoned, returned>>

\* ---- prune_before (encrypted.rs 108-111)
PruneLock(t) ==
    /\ Calls(t, "prune")
    /\ Lock(t, "conn", "prune_locked")
    /\ UNCHANGED <<windowVars, storeVars, mainVars, script, poisoned, returned>>

\* `sql_ok` is whether the DELETE statement succeeded; when it fails no row
\* is deleted.  The temporary guard is still alive when execute returns.
PruneRun(t, sql_ok) ==
    /\ thread[t].pc = "prune_locked"
    /\ LET gone == RowsPruned(events_table, Cur(t).ts)
       IN  IF sql_ok
           THEN /\ events_table' = events_table \ gone
                /\ thread' = [thread EXCEPT ![t].pc = "conn_release",
                                             ![t].ret = << Ok(Cardinality(gone)) >>]
           ELSE /\ UNCHANGED events_table
                /\ thread' = [thread EXCEPT ![t].pc = "conn_release",
                                             ![t].ret = << Err("sql") >>]
    /\ UNCHANGED <<windowVars, key, storeRet, written, altered, mainVars, script, locks,
                   poisoned, returned>>

\* The guard of the connection is dropped: the temporary of insert_event and
\* prune_before at the end of the execute expression (before `?` returns an
\* error), the local `conn` of get_event when the function is left.  The
\* value the call returns is computed; the caller does not have it yet.
ConnRelease(t) ==
    /\ thread[t].pc = "conn_release"
    /\ locks' = Released("conn")
    /\ thread' = [thread EXCEPT ![t].pc = "store_ret"]
    /\ UNCHANGED <<windowVars, storeVars, mainVars, script, poisoned, returned>>

\* insert_event, get_event or prune_before returns to its caller
StoreReturn(t) ==
    /\ thread[t].pc = "store_ret"
    /\ Return(t, thread[t].ret[1], thread[t].snapshot)
    /\ UNCHANGED <<windowVars, storeVars, mainVars, script, locks, poisoned>>

WindowCalls(t) ==
    \/ PushLock(t)
    \/ PushOne(t)
    \/ PushSnapshot(t)
    \/ PushReturn(t)
    \/ FlushLock(t)
    \/ FlushSnapshot(t)
    \/ FlushReturn(t)

StoreCalls(t) ==
    \/ \E nonce \in Nonces : InsertEncrypt(t, nonce)
    \/ InsertLock(t)
    \/ \E sql_ok \in BOOLEAN : InsertDelete(t, sql_ok)
    \/ InsertPut(t)
    \/ GetLock(t)
    \/ \E sql_ok \in BOOLEAN : GetRun(t, sql_ok)
    \/ PruneLock(t)
    \/ \E sql_ok \in BOOLEAN : PruneRun(t, sql_ok)
    \/ ConnRelease(t)
    \/ StoreReturn(t)

\* The events thread t pushes in its j-th call: fresh events (Event::new).
ThreadEvents(t, j, n) ==
    [ k \in 1..n |-> Event(100 * t + 10 * j + k, 0, ProcessKind("sh", <<4>>)) ]

\* The calls thread t may make as its j-th call, in each specification
WindowCallPool(t, j) ==
    { PushCall(ThreadEvents(t, j, n)) : n \in 1..MaxBatchShared } \cup { FlushCall }

StoreCallPool(t, j) ==
    { InsertCall(1, 10, <<t>>, <<500>>), InsertCall(1, 20, <<t>>, <<NaN>>),
      GetCall(1), PruneCall(20) }

LockCallPool(t, j) ==
    { PushCall(ThreadEvents(t, j, 1)), FlushCall, InsertCall(1, 10, <<t>>, <<500>>),
      GetCall(1), PruneCall(20) }

\* The call pools as functions of the thread and the position
PoolOf(spec) ==
    [ t \in Threads, j \in 1..MaxCalls |->
        CASE spec = "window" -> WindowCallPool(t, j)
          [] spec = "store" -> StoreCallPool(t, j)
          [] OTHER -> LockCallPool(t, j) ]

\* The scripts of thread t: 1 to MaxCalls calls, the j-th from pool[t, j]
Scripts(t, pool) ==
    UNION { { sc \in [1..n -> UNION { pool[t, j] : j \in 1..n }] :
                \A j \in 1..n : sc[j] \in pool[t, j] } : n \in 1..MaxCalls }

InitThreads(pool, caps) ==
    /\ script \in { sc \in [Threads -> UNION { Scripts(t, pool) : t \in Threads }] :
                      \A t \in Threads : sc[t] \in Scripts(t, pool) }
    /\ thread = [ t \in Threads |-> Idle(1) ]
    /\ locks = AllFree
    /\ poisoned = {}
    /\ returned = <<>>
    /\ window_events \in caps
    /\ feature_dim = 3
    /\ window = <<>> /\ inserted = <<>> /\ pushRet = <<>> /\ flushRet = <<>>
    /\ key = derive_key(DeviceSecret)
    /\ events_table = {}
    /\ storeRet = NoRet
    /\ written = <<>>
    /\ altered = {}
    /\ MainUnused

\* SpecSharedWindow: two threads pushing into and flushing one extractor.
InitSharedWindow == InitThreads(PoolOf("window"), {MaxCap})
NextSharedWindow == \E t \in Threads : WindowCalls(t)
SpecSharedWindow == InitSharedWindow /\ [][NextSharedWindow]_vars

\* SpecSharedStore: two threads inserting, reading and pruning one id.
InitSharedStore == InitThreads(PoolOf("store"), {0})
NextSharedStore == \E t \in Threads : StoreCalls(t)
SpecSharedStore == InitSharedStore /\ [][NextSharedStore]_vars

\* SpecLocks: two threads making any of the five calls.
InitLocks == InitThreads(PoolOf("locks"), {1})
NextLocks == \E t \in Threads : (WindowCalls(t) \/ StoreCalls(t))
SpecLocks == InitLocks /\ [][NextLocks]_vars

(***************************************************************************)
(* Claims about the locks                                                  *)
(***************************************************************************)
HeldBy(t) == { l \in LockNames : locks[l] = t }

\* The lock a call may hold: push and flush the window lock, the store
\* operations the connection lock.
LockOf(op) == IF op \in {"push", "flush"} THEN "window" ELSE "conn"

AllReturned ==
    \A t \in Threads : thread[t].pc = "idle" /\ thread[t].at > Len(script[t])

Finished(t) == thread[t].pc = "idle" /\ thread[t].at > Len(script[t])

\* The lock thread t is about to ask for, if any
WaitsFor(t) ==
    IF Finished(t) THEN {}
    ELSE IF thread[t].pc = "idle" /\ Cur(t).op # "insert" THEN { LockOf(Cur(t).op) }
    ELSE IF thread[t].pc = "insert_lock" THEN { "conn" }
    ELSE {}

\* Thread t has a call to make or to finish and is not kept waiting by a lock.
Runnable(t) ==
    /\ ~Finished(t)
    /\ \A l \in WaitsFor(t) : locks[l] = NoThread

\* Runnable is what it says: some thread is runnable exactly when a step of
\* some thread is enabled.
RunnableIsEnabled == (\E t \in Threads : Runnable(t)) <=> ENABLED NextLocks

\* C24: a thread holds at most one lock at a time, only inside a call and
\* only that call's lock, and never asks for a lock while it holds one; so
\* while a call is still to be made or to be finished some thread can take a
\* step, whatever the interleaving so far.
C24_NoDeadlock ==
    /\ \A t \in Threads :
          /\ Cardinality(HeldBy(t)) <= 1
          /\ HeldBy(t) # {} =>
                /\ thread[t].pc # "idle"
                /\ HeldBy(t) = { LockOf(Cur(t).op) }
                /\ WaitsFor(t) = {}
    /\ ~AllReturned => \E t \in Threads : Runnable(t)

\* C24 witness: one thread is inside push holding the window lock while the
\* other is inside insert_event holding the connection lock.
C24_Witness ==
    /\ locks["window"] = 1 /\ thread[1].pc = "push_loop"
    /\ locks["conn"] = 2 /\ thread[2].pc = "insert_put"

\* The push calls of thread t, in order
Pushes(t) == SelectSeq(script[t], LAMBDA c : c.op = "push")

\* The windows that sequences of whole push calls produce: k1 calls of
\* thread 1 and k2 calls of thread 2, each thread's in its own order.
SequentialWindows ==
    LET P1 == Pushes(1)
        P2 == Pushes(2)
        W[k1 \in 0..Len(P1), k2 \in 0..Len(P2)] ==
            IF k1 = 0 /\ k2 = 0 THEN { <<>> }
            ELSE (IF k1 = 0 THEN {}
                  ELSE { PushBackAll(w, P1[k1].events, window_events) : w \in W[k1 - 1, k2] })
                 \cup
                 (IF k2 = 0 THEN {}
                  ELSE { PushBackAll(w, P2[k2].events, window_events) : w \in W[k1, k2 - 1] })
    IN  W

\* C25: with push and flush running concurrently the window never exceeds
\* window_events; every snapshot a push or a flush takes, and so the vector
\* it returns, is the window as some sequence of whole push calls leaves it;
\* and when all calls have returned the window is what the push calls give
\* in some sequential order.
C25_PushFlushAtomic ==
    LET W == SequentialWindows
    IN  /\ Len(window) <= window_events
        /\ \A i \in 1..Len(returned) :
              /\ \E k \in DOMAIN W : returned[i].snapshot \in W[k]
              /\ returned[i].call.op = "flush" =>
                    returned[i].ret = FlushResult(returned[i].snapshot, feature_dim)
              /\ returned[i].call.op = "push" =>
                    returned[i].ret = PushResult(returned[i].snapshot, feature_dim)
        /\ AllReturned => window \in W[Len(Pushes(1)), Len(Pushes(2))]

\* C25 witness: a flush took its snapshot of both events of a push of two
\* events whose call had not yet returned.
C25_Witness ==
    /\ thread[1].pc = "push_ret"
    /\ Len(Cur(1).events) = 2
    /\ thread[2].pc = "flush_ret"
    /\ thread[2].snapshot = Cur(1).events

\* The record an insert call hands over, and the one a later read returns
\* for it when a NaN score comes back absent.
RecordOf(c) == [payload |-> c.payload, score |-> c.score, ts |-> c.ts]

RecordStoredOf(c) == [RecordOf(c) EXCEPT !.score = BindReal(@)]

\* Every call of every script
ScriptCalls == UNION { Range(script[t]) : t \in Threads }

InsertedIds == { c.id : c \in { d \in ScriptCalls : d.op = "insert" } }

OneRowPerInsertedId ==
    \A id \in InsertedIds : Cardinality(RowsWithId(events_table, id)) <= 1

\* The inserts completed when the get that returned i-th ran its query: those
\* whose INSERT statement had written its row.  Such an insert may still be
\* on its way back to its caller.
InsertsCompletedBefore(i) == Range(returned[i].snapshot)

\* C26 as stated: every get_event whose statement ran returns no record or
\* the complete (ts, payload, score) of one insert that had completed, for
\* every score, and when all calls have returned there is at most one row of
\* the id.
C26_SerialisedEveryScore ==
    /\ \A i \in 1..Len(returned) :
          (returned[i].call.op = "get" /\ StatementRan(returned[i].ret)) =>
             \/ returned[i].ret = Ok(<<>>)
             \/ \E c \in InsertsCompletedBefore(i) :
                   c.id = returned[i].call.id /\ returned[i].ret = Ok(<< RecordOf(c) >>)
    /\ AllReturned => OneRowPerInsertedId

\* What the code does for C26: the same with a NaN score read as absent; and
\* after the calls have returned the row of the id, if any, is the complete
\* record of one insert that succeeded, and there is one if an insert
\* succeeded and no prune was called.
C26_Serialised ==
    /\ \A i \in 1..Len(returned) :
          (returned[i].call.op = "get" /\ StatementRan(returned[i].ret)) =>
             \/ returned[i].ret = Ok(<<>>)
             \/ \E c \in InsertsCompletedBefore(i) :
                   /\ c.id = returned[i].call.id
                   /\ returned[i].ret = Ok(<< RecordStoredOf(c) >>)
    /\ AllReturned =>
          LET done == Range(written)
          IN  /\ OneRowPerInsertedId
              /\ \A id \in InsertedIds :
                    \/ GetEventResult(events_table, key, id) = Ok(<<>>)
                    \/ \E c \in done :
                          /\ c.id = id
                          /\ GetEventResult(events_table, key, id)
                                = Ok(<< RecordStoredOf(c) >>)
              /\ (done # {} /\ \A c \in ScriptCalls : c.op # "prune")
                    => events_table # {}

\* C26 witness: two threads inserted the same id concurrently, different
\* records, both inserts succeeded and one row is left.
C26_Witness ==
    /\ AllReturned
    /\ Len(returned) >= 2
    /\ \E i, j \in 1..Len(returned) :
          /\ returned[i].t # returned[j].t
          /\ returned[i].call.op = "insert" /\ returned[j].call.op = "insert"
          /\ returned[i].ret.ok /\ returned[j].ret.ok
          /\ returned[i].call.ts # returned[j].call.ts
    /\ Cardinality(events_table) = 1
(***************************************************************************)
(* Claims about the model score, the interval and partial failure          *)
(***************************************************************************)
InUnitInterval(x) == x # NaN /\ 0 <= x /\ x <= 1000

\* C31 as stated: predict always returns a value in [0,1], so the score of
\* every RiskResult a cycle produces is in [0,1], and without a loaded model
\* the score is exactly 0.
C31_ScoreInUnitInterval ==
    /\ pc \in {"score", "persist", "cycle_end"} \cup UplinkPcs =>
          /\ InUnitInterval(cyc_score)
          /\ ~session => cyc_score = 0
    /\ cyc_result # <<>> => InUnitInterval(cyc_result[1].score)

\* What the code does for C31: without a loaded model, or when the run or
\* the extraction fails, the score is 0; a numeric first output is clamped
\* into [0,1]; a NaN first output is returned as NaN.
C31_ScoreInUnitIntervalOrNaN ==
    /\ pc \in {"score", "persist", "cycle_end"} \cup UplinkPcs =>
          /\ cyc_score = NaN \/ InUnitInterval(cyc_score)
          /\ ~session => cyc_score = 0
    /\ cyc_result # <<>> =>
          (cyc_result[1].score = NaN \/ InUnitInterval(cyc_result[1].score))
\* C32 as stated: in daemon mode, the sleep loop after a cycle is set up for
\* exactly interval_secs one-second increments, for every 64-bit interval
\* (2^32 and above included); each sleep takes one increment off, and without
\* cancellation the next cycle starts only when none is left.
C32_Step ==
    /\ (pc = "cycle_end" /\ pc' = "sleep_check") =>
          interval_secs = U64(0, sleep_i')
    /\ (pc = "sleeping" /\ pc' = "sleep_check") => sleep_i' = sleep_i - 1
    /\ (pc = "sleep_check" /\ pc' = "loop_check" /\ ~STOP) => sleep_i = 0

C32_SleepsWholeInterval == [][C32_Step]_vars

\* What the code does for C32: the increments are the low 32 bits of the
\* interval, which is the interval itself only below 2^32.
C32_LowStep ==
    /\ (pc = "cycle_end" /\ pc' = "sleep_check") =>
          /\ sleep_i' = interval_secs.lo
          /\ interval_secs.hi = 0 => interval_secs = U64(0, sleep_i')
    /\ (pc = "sleeping" /\ pc' = "sleep_check") => sleep_i' = sleep_i - 1
    /\ (pc = "sleep_check" /\ pc' = "loop_check" /\ ~STOP) => sleep_i = 0

C32_SleepsLowBits == [][C32_LowStep]_vars
(***************************************************************************)
(* Claims about concurrent pushes                                          *)
(***************************************************************************)
\* The push calls of the scripts
PushCalls == { c \in ScriptCalls : c.op = "push" }

\* In the sequence s, an event of a batch that is not the batch's last is
\* followed by the next event of the same batch.
BatchesContiguous(s) ==
    \A p \in 1..(Len(s) - 1) : \A c \in PushCalls : \A k \in 1..(Len(c.events) - 1) :
        s[p] = c.events[k] => s[p + 1] = c.events[k + 1]

\* The id of the last event of a batch
LastIdOf(events) == events[Len(events)].id

\* C33: under concurrent push calls the events of one batch are never
\* interleaved with those of another, in the order of insertion and in the
\* window; and for window_events >= 1 and a non-empty batch, the vector a
\* push computes from its snapshot and returns is tagged with the last event
\* of the caller's own batch.
C33_PushAtomic ==
    /\ BatchesContiguous(inserted)
    /\ BatchesContiguous(window)
    /\ \A t \in Threads :
          (thread[t].pc = "push_ret" /\ window_events >= 1 /\ Cur(t).events # <<>>) =>
              /\ PushResult(thread[t].snapshot, feature_dim) # <<>>
              /\ PushResult(thread[t].snapshot, feature_dim)[1].event_id
                     = LastIdOf(Cur(t).events)
    /\ \A i \in 1..Len(returned) :
          (returned[i].call.op = "push" /\ window_events >= 1
              /\ returned[i].call.events # <<>>) =>
              /\ Len(returned[i].ret) = 1
              /\ returned[i].ret[1].event_id = LastIdOf(returned[i].call.events)

\* C33 witness: thread 1 has taken the snapshot of its push of two events and
\* dropped the lock, thread 2 has already pushed an event of its own batch
\* behind them, and the vector thread 1 is about to return carries the id of
\* the last event of thread 1's batch, not the id at the back of the window.
C33_Witness ==
    /\ thread[1].pc = "push_ret"
    /\ Len(Cur(1).events) = 2
    /\ thread[2].pc = "push_loop"
    /\ thread[2].i >= 1
    /\ PushResult(thread[1].snapshot, feature_dim)[1].event_id = LastIdOf(Cur(1).events)
    /\ window[Len(window)].id # LastIdOf(Cur(1).events)
(***************************************************************************)
(* Claims about a cycle that fails while persisting                        *)
(***************************************************************************)
\* The cycle returned the error of an insert: the insert of event
\* persisted + 1 failed.
FailedPersist ==
    /\ pc = "cycle_end"
    /\ ~cycleRet[1].ok
    /\ storeRet.op = "insert"

\* The event is in the store and reads back with its own text and time.
Stored(ev) ==
    /\ Cardinality(RowsWithId(events_table, ev.id)) = 1
    /\ GetEventResult(events_table, key, ev.id).ok
    /\ GetEventResult(events_table, key, ev.id).val[1].payload = EventJson(ev)
    /\ GetEventResult(events_table, key, ev.id).val[1].ts = ev.ts

\* What holds of the store and the uplink when the insert of the k-th event
\* of the batch failed, k = persisted + 1.
PartlyPersisted ==
    /\ persisted < Len(cyc_events)
    /\ storeRet.id = cyc_events[persisted + 1].id
    /\ \A i \in 1..persisted : Stored(cyc_events[i])
    /\ \A i \in (persisted + 1)..Len(cyc_events) :
          /\ RowsWithId(events_table, cyc_events[i].id) = {}
          /\ written[cyc_events[i].id] = <<>>
    /\ reportRet = <<>>
    /\ report_posts = <<>>

\* C34 as stated: when the insert of the k-th event fails, the first k-1
\* events are stored, the others were not attempted, the uplink was not
\* called, and the window holds all events of the batch.
C34_WindowKeepsWholeBatch ==
    FailedPersist =>
        /\ PartlyPersisted
        /\ \A i \in 1..Len(cyc_events) : cyc_events[i] \in Range(window)

\* The push of the batch is in the window as push left it: the window is the
\* last window_events events ever pushed, the batch being the latest.
PushNotUndone ==
    /\ window = LastN(inserted, Min(window_events, Len(inserted)))
    /\ LastN(inserted, Len(cyc_events)) = cyc_events

C34_Step ==
    /\ \A id \in DOMAIN written :
          /\ written[id] # <<>> => RowsWithId(events_table', id) # {}
          /\ (written[id] = <<>> /\ written'[id] # <<>>) =>
                (pc = "persist" /\ cyc_events[persisted + 1].id = id)
    /\ FailedPersist => (events_table' = events_table /\ window' = window)

\* C34: a cycle that fails during persistence is not rolled back.  When the
\* insert of the k-th event fails, the first k-1 events are stored and stay
\* stored, the others are not attempted then or later, the uplink is not
\* called, and the push is not undone: the window keeps the last
\* min(n, window_events) events of the batch of n, and the vector of every
\* later cycle is computed over the window that results.
C34_NotRolledBack ==
    /\ [](FailedPersist => (PartlyPersisted /\ PushNotUndone))
    /\ [](pc \in {"predict", "score", "persist", "cycle_end"} \cup UplinkPcs =>
            /\ PushNotUndone
            /\ pushRet = PushResult(window, feature_dim))
    /\ [][C34_Step]_vars

\* C34 witness: the first cycle stored the first of its two events and failed
\* on the second; in the second cycle the window still holds that second
\* event, which is not in the store, and the cycle's vector is computed over
\* it.
C34_Witness ==
    /\ cycle = 2
    /\ pc = "predict"
    /\ storeRet.op = "insert" /\ ~storeRet.ret.ok
    /\ written[1] # <<>>
    /\ written[2] = <<>>
    /\ inserted[2] \in Range(window)
    /\ inserted[2] \notin Range(cyc_events)
    /\ pushRet = PushResult(window, feature_dim)
    /\ pushRet # <<>>
(***************************************************************************)
(* Claims about reports of an unregistered device                          *)
(***************************************************************************)
\* The POSTs of a report that follow its devices POST: one per event of the
\* batch in order, then the risk-scores POST.
SentAfterDevices(posts, batch) ==
    /\ Len(posts) = Len(batch) + 2
    /\ \A i \in 1..Len(batch) :
          /\ posts[1 + i].path = "/api/v1/events"
          /\ posts[1 + i].id = batch[i].id
    /\ posts[Len(batch) + 2].path = "/api/v1/risk_scores"

C35_Step ==
    /\ (~device_registered /\ device_registered') =>
          /\ pc = "device_store"
          /\ IsDevicesPost(report_posts[1])
          /\ report_posts[1].ok
    /\ (ReportEntered /\ ~device_registered) =>
          /\ Len(report_posts') = 1
          /\ IsDevicesPost(report_posts'[1])
          /\ ~report_posts'[1].ok => (~device_registered' /\ pc' # "device_store")
    /\ (pc \in UplinkPcs /\ uplink /\ pc' # pc) =>
          /\ pc' \in UplinkPcs \cup {"cycle_end"}
          /\ pc' = "cycle_end" => NewReport
    /\ (NewReport /\ IsDevicesPost(reportRet'[1].posts[1])) =>
          /\ SentAfterDevices(reportRet'[1].posts, cyc_events)
          /\ ~reportRet'[1].posts[1].ok => ~device_registered'

\* C35: the registered flag becomes true only in a report whose devices POST
\* succeeded; every report made while the device is not registered starts
\* with a devices POST, and its events POSTs and its risk-scores POST are
\* sent after it whether or not that devices POST succeeded.
C35_UnregisteredStillReports == [][C35_Step]_vars

\* C35 witness: the report of the second cycle, of one event or more: its
\* devices POST failed, the device is still not registered, and the events
\* and the risk score were posted after it.
C35_Witness ==
    /\ cycle = 2
    /\ pc = "cycle_end"
    /\ reportRet # <<>>
    /\ ~device_registered
    /\ cyc_events # <<>>
    /\ IsDevicesPost(reportRet[1].posts[1])
    /\ ~reportRet[1].posts[1].ok
    /\ SentAfterDevices(reportRet[1].posts, cyc_events)
(***************************************************************************)
(* Claims about reading with another secret                                *)
(***************************************************************************)
\* A read, through a handle opened with another secret, of a record that is
\* in the store as a handle of a different key wrote it.
ReadWithOtherSecret ==
    /\ storeRet.op = "get"
    /\ written[storeRet.id] # <<>>
    /\ storeRet.id \notin altered
    /\ written[storeRet.id][1].key # key

\* C36: get_event through a handle whose secret differs from the secret of
\* the handle that wrote the record returns an error, neither a payload nor
\* an absent result; and no read and no opening changes the stored rows.
C36_OtherSecretCannotRead ==
    /\ [](ReadWithOtherSecret => ~storeRet.ret.ok)
    /\ [][events_table' # events_table => storeRet'.op = "insert"]_vars
    /\ [][(storeRet'.op = "get" /\ storeRet' # storeRet) =>
             events_table' = events_table]_vars

\* C36 witness: a record with a payload of one byte was written under one
\* secret, the store was opened again with the other, and the read of the
\* record's id returned the error of the decryption while its row is still
\* in the table.
C36_Witness ==
    /\ ReadWithOtherSecret
    /\ written[storeRet.id][1].payload # <<>>
    /\ written[storeRet.id][1].reopened
    /\ storeRet.ret = Err("aead")
    /\ Cardinality(RowsWithId(events_table, storeRet.id)) = 1

====
